---- MODULE Spec2Model ----
(***************************************************************************)
(* Verification model of the stract query-and-ranking core:                *)
(*   - the InvertedIndex segment store (crates/core/src/inverted_index.rs) *)
(*   - Query::parse (crates/core/src/query/mod.rs)                         *)
(*   - the optic compiler (crates/core/src/query/optic.rs)                 *)
(* The specifications share the variables below: Spec (commits and         *)
(* searches on one index), SpecCompact and SpecSegments                    *)
(* (merge_into_max_segments), SpecMerge and SpecMergeCopy                  *)
(* (InvertedIndex::merge of two indexes), SpecQuery (term list of          *)
(* Query::parse), SpecOptic (optic compilation), SpecSafe (the safe-search *)
(* clause of Query::parse), SpecPattern (patterns of a matching),          *)
(* SpecRule (Matches blocks of one rule), SpecOlder (the older optic       *)
(* compiler), SpecPacking (bin packing of segments with deleted            *)
(* documents),                                                             *)
(* SpecRankings (host rankings of a request and its optic), SpecRetrieve  *)
(* (retrieval of the documents of a search), SpecServer (the sonic         *)
(* Server), SpecBudget                                                     *)
(* (search_initial with a document budget) and SpecWriter (the writer an   *)
(* index keeps).                                                           *)
(***************************************************************************)
EXTENDS Integers, Sequences, FiniteSets, TLC

VARIABLES
    alive,              \* [Indexes -> BOOLEAN]: the InvertedIndex value still exists
    metas,              \* [Indexes -> Seq(segment)]: meta.json of the index directory
    files,              \* [Indexes -> SUBSET segment ids]: segment files on disk
    writer,             \* [Indexes -> writer record]: InvertedIndex.writer
    reader,             \* [Indexes -> Seq(segment)]: searcher generation held by InvertedIndex.reader
    fastfield_reader,   \* [Indexes -> Seq(segment id)]: segments InvertedIndex.fastfield_reader was built from
    mergeOp,            \* [Indexes -> record]: position and outcome of the latest merge_into_max_segments
                        \* call, forgotten at the next call on the writer
    nextSeg,            \* next fresh segment id (tantivy segment ids are fresh uuids)
    inserted,           \* [Indexes -> SUBSET Docs]: documents handed to insert so far
    committedDocs,      \* [Indexes -> SUBSET Docs]: live documents made durable by the last open/commit
    ctx,                \* [Searchers -> record]: Ctx values obtained from local_search_ctx
    results,            \* [Searchers -> record]: outcome of the last search_initial of a searcher
    lastMerge,          \* outcome of the last InvertedIndex::merge call
    parsed_terms,       \* Seq(Term): output of parser::parse for the request text
    query,              \* the Query built by Query::parse
    request,            \* the SearchQuery of the optic specification
    optic_query,        \* the compiled tantivy query of the optic specification
    search,             \* a search_initial call with a collector: its inputs and outcome
    server              \* the sonic Server: its connections and handler tasks

indexVars == <<alive, metas, files, writer, reader, fastfield_reader, mergeOp,
               nextSeg, inserted, committedDocs, ctx, results, lastMerge>>
queryVars == <<parsed_terms, query>>
opticVars == <<request, optic_query>>
searchVars == <<search>>
serverVars == <<server>>
vars == <<indexVars, queryVars, opticVars, searchVars, serverVars>>

------------------------------------------------------------------------------
(* Bounds of the model *)

MaxDocs == 4            \* size of the pool of documents that can be inserted
MaxTs == 2              \* insertion timestamps are 1..MaxTs
MaxDeletes == 1         \* delete_all_before calls buffered in one writer
MaxK == 3               \* largest max_num_segments passed to merge_into_max_segments
MaxShared == 2          \* segments that two index directories can have in common
MaxSegments == 6        \* segments in the directory an index is opened on
MaxSegDocs == 3         \* documents in one segment of such a directory
MaxSegLen == 3          \* matching documents in one segment of a searched corpus
MaxTotalDocs == 4       \* largest total_docs of a collector's document budget
MaxTokens == 3          \* tokens in the field a pattern is matched against
MaxParts == 3           \* tokens and wildcards between the anchors of a pattern

Indexes == {1, 2}
Searchers == {1}
Docs == 1..MaxDocs
Timestamps == 1..MaxTs
Cutoffs == 2..(MaxTs + 1)

\* InsertionTimestamp of a pooled document
Timestamp(d) == ((d - 1) % MaxTs) + 1

\* whether a pooled document matches the one query the searchers run
DocMatchesQuery(d) == d % 3 # 0

Range(s) == {s[n] : n \in DOMAIN s}

RECURSIVE SetToSeq(_)
SetToSeq(S) == IF S = {} THEN <<>> ELSE LET x == CHOOSE y \in S : TRUE IN <<x>> \o SetToSeq(S \ {x})

------------------------------------------------------------------------------
(* Segments *)

NumDocs(seg) == Cardinality(seg.docs \ seg.deleted)
MaxDoc(seg) == Cardinality(seg.docs)

SegIds(segs) == {segs[n].id : n \in DOMAIN segs}
LiveDocs(segs) == UNION {segs[n].docs \ segs[n].deleted : n \in DOMAIN segs}

\* number of live copies of document d in a segment list
DocCount(segs, d) == Cardinality({n \in DOMAIN segs : d \in segs[n].docs \ segs[n].deleted})

\* stable sort of s, largest key first; key is a function on DOMAIN s
StableSortDesc(s, key) ==
    LET pos(n) == Cardinality({m \in DOMAIN s :
                        key[m] > key[n] \/ (key[m] = key[n] /\ m < n)}) + 1
    IN [p \in DOMAIN s |-> s[CHOOSE n \in DOMAIN s : pos(n) = p]]

SortByMaxDoc(segs) == StableSortDesc(segs, [n \in DOMAIN segs |-> MaxDoc(segs[n])])
SortByNumDocs(segs) == StableSortDesc(segs, [n \in DOMAIN segs |-> NumDocs(segs[n])])

\* segments of segs that satisfy Keep, in order
RECURSIVE SelectSegs(_, _)
SelectSegs(segs, keepIds) ==
    IF segs = <<>> THEN <<>>
    ELSE IF Head(segs).id \in keepIds
         THEN <<Head(segs)>> \o SelectSegs(Tail(segs), keepIds)
         ELSE SelectSegs(Tail(segs), keepIds)

------------------------------------------------------------------------------
(* Writer *)

NoWriter == [prepared |-> FALSE, ops |-> <<>>, policy |-> "none"]
FreshWriter == [prepared |-> TRUE, ops |-> <<>>, policy |-> "NoMerge"]

\* (mutant) prepare_writer attaches a new writer whether or not one exists
PreparedWriterAnew(w) == FreshWriter

\* prepare_writer: keep an existing writer, else attach one with NoMergePolicy
PreparedWriter(w) == IF w.prepared THEN w ELSE FreshWriter

AddOp(d) == [op |-> "add", arg |-> d]
DelOp(t) == [op |-> "del", arg |-> t]

BufferedDocs(w) == {w.ops[n].arg : n \in {m \in DOMAIN w.ops : w.ops[m].op = "add"}}
NumDeletes(w) == Cardinality({n \in DOMAIN w.ops : w.ops[n].op = "del"})

\* tombstones registered and not yet committed, over all writers
PendingDeletes ==
    LET total[S \in SUBSET Indexes] ==
            IF S = {} THEN 0
            ELSE LET i == CHOOSE x \in S : TRUE
                 IN NumDeletes(writer[i]) + total[S \ {i}]
    IN total[Indexes]

\* (mutant) the upper bound taken as Included(timestamp)
RangeQueryIncluded(timestamp, d) == Timestamp(d) <= timestamp

\* RangeQuery over InsertionTimestamp with bounds (Unbounded, Excluded(timestamp))
RangeQueryMatches(timestamp, d) == Timestamp(d) < timestamp

\* a delete_query only affects documents added before it (smaller opstamp)
DeletedByLaterOp(ops, from, d) ==
    \E q \in DOMAIN ops : q > from /\ ops[q].op = "del" /\ RangeQueryMatches(ops[q].arg, d)

\* metas after IndexWriter::commit: tombstones are applied to the committed
\* segments and to the buffered documents that precede them, the buffered
\* documents become one new segment, segments without live documents are dropped
CommittedMetas(segs, ops, newId) ==
    LET old == [n \in DOMAIN segs |->
                  [segs[n] EXCEPT !.deleted =
                      @ \cup {d \in segs[n].docs : DeletedByLaterOp(ops, 0, d)}]]
        addPos == {n \in DOMAIN ops : ops[n].op = "add"}
        added == {ops[n].arg : n \in addPos}
        addDel == {ops[n].arg : n \in {m \in addPos : DeletedByLaterOp(ops, m, ops[m].arg)}}
        new == IF added = {} THEN <<>>
               ELSE <<[id |-> newId, docs |-> added, deleted |-> addDel]>>
        all == old \o new
        keep == {all[n].id : n \in {m \in DOMAIN all : NumDocs(all[m]) > 0}}
    IN SortByMaxDoc(SelectSegs(all, keep))

------------------------------------------------------------------------------
(* Bin packing of merge_tantivy_segments *)

\* (mutant) one bin more than max_num_segments
NumBinsAboveLimit(max_num_segments) == max_num_segments + 1

\* (mutant) one bin more for an even max_num_segments
NumBinsOfNext(max_num_segments) == (max_num_segments + 2) \div 2

\* let num_segments = (max_num_segments + 1) / 2, an integer division of u32
NumBins(max_num_segments) == (max_num_segments + 1) \div 2

EmptyBins(n) == [b \in 1..n |-> [num_docs |-> 0, segments |-> <<>>]]

\* (mutant) the last of several equally small candidates
LastBestCandidate(bins) ==
    CHOOSE b \in DOMAIN bins :
        /\ \A c \in DOMAIN bins : bins[c].num_docs >= bins[b].num_docs
        /\ \A c \in DOMAIN bins : c > b => bins[c].num_docs > bins[b].num_docs

\* min_by returns the first of several equally small candidates
BestCandidate(bins) ==
    CHOOSE b \in DOMAIN bins :
        /\ \A c \in DOMAIN bins : bins[c].num_docs >= bins[b].num_docs
        /\ \A c \in DOMAIN bins : c < b => bins[c].num_docs > bins[b].num_docs

RECURSIVE PackBins(_, _)
PackBins(bins, segs) ==
    IF segs = <<>> THEN bins
    ELSE LET seg == Head(segs)
             best == BestCandidate(bins)
         IN PackBins([bins EXCEPT ![best] =
                        [num_docs |-> @.num_docs + NumDocs(seg),
                         segments |-> Append(@.segments, seg)]],
                     Tail(segs))

MergeCandidates(segs, max_num_segments) ==
    PackBins(EmptyBins(NumBins(max_num_segments)), SortByNumDocs(segs))

\* (mutant) bins of a single segment are skipped as well
RECURSIVE BinsOfSeveral(_)
BinsOfSeveral(bins) ==
    IF bins = <<>> THEN <<>>
    ELSE IF Len(Head(bins).segments) > 1
         THEN <<Head(bins)>> \o BinsOfSeveral(Tail(bins))
         ELSE BinsOfSeveral(Tail(bins))

\* merge_segments.into_iter().filter(|merge| !merge.segments.is_empty())
RECURSIVE NonEmptyBins(_)
NonEmptyBins(bins) ==
    IF bins = <<>> THEN <<>>
    ELSE IF Head(bins).segments # <<>>
         THEN <<Head(bins)>> \o NonEmptyBins(Tail(bins))
         ELSE NonEmptyBins(Tail(bins))

\* (mutant) a merge that copies tombstoned documents as live ones
MergedSegmentKeepsDeleted(segs, newId) ==
    [id |-> newId, docs |-> UNION {segs[n].docs : n \in DOMAIN segs}, deleted |-> {}]

\* the segment IndexWriter::merge writes for the given segments
MergedSegment(segs, newId) ==
    [id |-> newId, docs |-> LiveDocs(segs), deleted |-> {}]

\* metas after IndexWriter::merge(ids) has completed
MetasAfterMerge(segs, ids, newId) ==
    LET consumed == SelectSegs(segs, ids)
        rest == SelectSegs(segs, SegIds(segs) \ ids)
        merged == MergedSegment(consumed, newId)
    IN SortByMaxDoc(IF NumDocs(merged) > 0 THEN Append(rest, merged) ELSE rest)

\* no merge_into_max_segments call to remember: segments and files are the metas
\* and the files the call found, num_segments the number of bins it created,
\* candidates the bins as packed, bins the segment ids of its non-empty bins,
\* pos the bin it is at (or stopped at), merged the number of bins merged and
\* unlinked
IdleMerge == [phase |-> "idle", k |-> 0, segments |-> <<>>, files |-> {},
              num_segments |-> 0, candidates |-> <<>>, bins |-> <<>>, pos |-> 0,
              merged |-> 0]

\* a merge_into_max_segments call holds &mut self until it returns
Busy(i) == mergeOp[i].phase \in {"merge", "unlink"}

------------------------------------------------------------------------------
(* Reader *)

\* (mutant) a reload that keeps the old searcher generation
ReaderReloadStale(current, segs) == current

\* IndexReader::reload: the searcher generation becomes the current metas
ReaderReload(current, segs) == segs

\* FastFieldReader::new(&searcher): one column reader per segment of the searcher
FastFieldReaderNew(searcherSegs) == [n \in DOMAIN searcherSegs |-> searcherSegs[n].id]

\* segment files left in the directory once a commit has committedDocs segs
FilesAfterCommit(oldFiles, oldSegs, segs) ==
    (oldFiles \cap SegIds(segs)) \cup (SegIds(segs) \ SegIds(oldSegs))

\* documents an opened reader over metas can return: live and with files on disk
Searchable(i) ==
    UNION {metas[i][n].docs \ metas[i][n].deleted :
              n \in {m \in DOMAIN metas[i] : metas[i][m].id \in files[i]}}

NoCtx == [idx |-> 0, tv_searcher |-> <<>>, fastfield_reader |-> <<>>, committed |-> {}]
NoResult == [done |-> FALSE, docs |-> {}]
NoMerge == [into |-> 0, committed |-> {}, bufferedSelf |-> {}, bufferedOther |-> {},
            untouched |-> {}, selfIds |-> {}, otherIds |-> {}, renamed |-> {}]

UsedDocs == UNION {inserted[i] : i \in Indexes}

\* documents of the pool are handed to insert in the order of their ids
NextDoc == Cardinality(UsedDocs) + 1

------------------------------------------------------------------------------
(* Query and optic state placeholders used by the segment store specification *)

NoQuery == [parsed |-> FALSE, terms |-> <<>>, simple_terms_text |-> <<>>]
NoRequest == [used |-> FALSE]
NoOpticQuery == [compiled |-> FALSE]

QueryIdle ==
    /\ parsed_terms = <<>>
    /\ query = NoQuery

OpticIdle ==
    /\ request = NoRequest
    /\ optic_query = NoOpticQuery

NoSearch == [phase |-> "idle"]

SearchIdle == search = NoSearch

\* no sonic server in the specification
NoServer == [bound |-> FALSE]

ServerIdle == server = NoServer

------------------------------------------------------------------------------
(* The segment store: InvertedIndex *)

IndexInit ==
    /\ metas = [i \in Indexes |-> <<>>]
    /\ files = [i \in Indexes |-> {}]
    /\ writer = [i \in Indexes |-> NoWriter]
    /\ reader = [i \in Indexes |-> <<>>]
    /\ fastfield_reader = [i \in Indexes |-> <<>>]
    /\ mergeOp = [i \in Indexes |-> IdleMerge]
    /\ nextSeg = 1
    /\ inserted = [i \in Indexes |-> {}]
    /\ committedDocs = [i \in Indexes |-> {}]
    /\ ctx = [s \in Searchers |-> NoCtx]
    /\ results = [s \in Searchers |-> NoResult]
    /\ lastMerge = NoMerge

\* one index opened on a fresh directory
Init ==
    /\ alive = [i \in Indexes |-> i = 1]
    /\ IndexInit
    /\ QueryIdle
    /\ OpticIdle
    /\ SearchIdle
    /\ ServerIdle

\* two indexes opened on fresh directories (the indexer's map-reduce merge)
InitMerge ==
    /\ alive = [i \in Indexes |-> TRUE]
    /\ IndexInit
    /\ QueryIdle
    /\ OpticIdle
    /\ SearchIdle
    /\ ServerIdle

\* meta.json of a directory holding committed segments of the given sizes
OpenedMetas(sizes) ==
    LET before[s \in 0..Len(sizes)] == IF s = 0 THEN 0 ELSE before[s - 1] + sizes[s]
    IN [s \in DOMAIN sizes |->
          [id |-> s, docs |-> (before[s - 1] + 1)..before[s], deleted |-> {}]]

\* segment sizes of a directory, as tantivy saves them: largest max_doc first
SegmentSizes ==
    {sizes \in UNION {[1..n -> 1..MaxSegDocs] : n \in 0..MaxSegments} :
        \A s \in 1..(Len(sizes) - 1) : sizes[s] >= sizes[s + 1]}

\* one index opened on a directory that holds committed segments
InitSegments ==
    /\ alive = [i \in Indexes |-> i = 1]
    /\ \E sizes \in SegmentSizes :
          LET segs == [i \in Indexes |-> IF i = 1 THEN OpenedMetas(sizes) ELSE <<>>]
          IN /\ metas = segs
             /\ files = [i \in Indexes |-> SegIds(segs[i])]
             /\ reader = segs
             /\ fastfield_reader = [i \in Indexes |-> FastFieldReaderNew(segs[i])]
             /\ nextSeg = Len(sizes) + 1
             /\ inserted = [i \in Indexes |-> LiveDocs(segs[i])]
             /\ committedDocs = [i \in Indexes |-> LiveDocs(segs[i])]
    /\ writer = [i \in Indexes |-> NoWriter]
    /\ mergeOp = [i \in Indexes |-> IdleMerge]
    /\ ctx = [s \in Searchers |-> NoCtx]
    /\ results = [s \in Searchers |-> NoResult]
    /\ lastMerge = NoMerge
    /\ QueryIdle
    /\ OpticIdle
    /\ SearchIdle
    /\ ServerIdle

\* two indexes opened on directories that exist already: the second directory
\* is a copy of the first, so both list the same committed segments
InitMergeCopy ==
    /\ alive = [i \in Indexes |-> TRUE]
    /\ \E n \in 0..MaxShared :
          /\ metas = [i \in Indexes |-> OpenedMetas([s \in 1..n |-> 1])]
          /\ files = [i \in Indexes |-> 1..n]
          /\ reader = metas
          /\ fastfield_reader = [i \in Indexes |-> FastFieldReaderNew(metas[i])]
          /\ nextSeg = n + 1
          /\ inserted = [i \in Indexes |-> 1..n]
          /\ committedDocs = [i \in Indexes |-> 1..n]
    /\ writer = [i \in Indexes |-> NoWriter]
    /\ mergeOp = [i \in Indexes |-> IdleMerge]
    /\ ctx = [s \in Searchers |-> NoCtx]
    /\ results = [s \in Searchers |-> NoResult]
    /\ lastMerge = NoMerge
    /\ QueryIdle
    /\ OpticIdle
    /\ SearchIdle
    /\ ServerIdle

PrepareWriter(i) ==
    /\ alive[i] /\ ~Busy(i)
    /\ writer' = [writer EXCEPT ![i] = PreparedWriter(@)]
    /\ mergeOp' = [mergeOp EXCEPT ![i] = IdleMerge]
    /\ UNCHANGED <<alive, metas, files, reader, fastfield_reader, nextSeg,
                   inserted, committedDocs, ctx, results, lastMerge>>

\* set_auto_merge_policy; it panics without a writer. LogMergePolicy::default()
\* merges in the background once a level holds 8 segments, more than an index
\* of this model ever has
SetAutoMergePolicy(i) ==
    /\ alive[i] /\ ~Busy(i)
    /\ writer[i].prepared
    /\ writer' = [writer EXCEPT ![i].policy = "LogMerge"]
    /\ mergeOp' = [mergeOp EXCEPT ![i] = IdleMerge]
    /\ UNCHANGED <<alive, metas, files, reader, fastfield_reader, nextSeg,
                   inserted, committedDocs, ctx, results, lastMerge>>

Insert(i, d) ==
    /\ alive[i] /\ ~Busy(i)
    /\ writer[i].prepared
    /\ d = NextDoc
    /\ writer' = [writer EXCEPT ![i].ops = Append(@, AddOp(d))]
    /\ inserted' = [inserted EXCEPT ![i] = @ \cup {d}]
    /\ mergeOp' = [mergeOp EXCEPT ![i] = IdleMerge]
    /\ UNCHANGED <<alive, metas, files, reader, fastfield_reader, nextSeg,
                   committedDocs, ctx, results, lastMerge>>

\* (mutant) reader.reload() and the fast-field rebuild run before writer.commit()
CommitReloadsFirst(i) ==
    /\ alive[i] /\ ~Busy(i)
    /\ UNCHANGED <<alive, inserted, ctx, results, lastMerge>>
    /\ mergeOp' = [mergeOp EXCEPT ![i] = IdleMerge]
    /\ LET w == PreparedWriter(writer[i])
           segs == CommittedMetas(metas[i], w.ops, nextSeg)
           searcher == ReaderReload(reader[i], metas[i])
       IN /\ writer' = [writer EXCEPT ![i] = [w EXCEPT !.ops = <<>>]]
          /\ metas' = [metas EXCEPT ![i] = segs]
          /\ files' = [files EXCEPT ![i] = FilesAfterCommit(@, metas[i], segs)]
          /\ reader' = [reader EXCEPT ![i] = searcher]
          /\ fastfield_reader' = [fastfield_reader EXCEPT ![i] = FastFieldReaderNew(searcher)]
          /\ nextSeg' = IF BufferedDocs(w) = {} THEN nextSeg ELSE nextSeg + 1
          /\ committedDocs' = [committedDocs EXCEPT ![i] = LiveDocs(segs)]

Commit(i) ==
    /\ alive[i] /\ ~Busy(i)
    /\ UNCHANGED <<alive, inserted, ctx, results, lastMerge>>
    /\ mergeOp' = [mergeOp EXCEPT ![i] = IdleMerge]
    /\ LET w == PreparedWriter(writer[i])
           segs == CommittedMetas(metas[i], w.ops, nextSeg)
           searcher == ReaderReload(reader[i], segs)
       IN /\ writer' = [writer EXCEPT ![i] = [w EXCEPT !.ops = <<>>]]
          /\ metas' = [metas EXCEPT ![i] = segs]
          /\ files' = [files EXCEPT ![i] = FilesAfterCommit(@, metas[i], segs)]
          /\ reader' = [reader EXCEPT ![i] = searcher]
          /\ fastfield_reader' = [fastfield_reader EXCEPT ![i] = FastFieldReaderNew(searcher)]
          /\ nextSeg' = IF BufferedDocs(w) = {} THEN nextSeg ELSE nextSeg + 1
          /\ committedDocs' = [committedDocs EXCEPT ![i] = LiveDocs(segs)]

DeleteAllBefore(i, timestamp) ==
    /\ alive[i] /\ ~Busy(i)
    /\ writer[i].prepared
    /\ PendingDeletes < MaxDeletes
    /\ writer' = [writer EXCEPT ![i].ops = Append(@, DelOp(timestamp))]
    /\ mergeOp' = [mergeOp EXCEPT ![i] = IdleMerge]
    /\ UNCHANGED <<alive, metas, files, reader, fastfield_reader, nextSeg,
                   inserted, committedDocs, ctx, results, lastMerge>>

LocalSearchCtx(s, i) ==
    /\ alive[i] /\ ~Busy(i)
    /\ ctx' = [ctx EXCEPT ![s] = [idx |-> i,
                                  tv_searcher |-> reader[i],
                                  fastfield_reader |-> fastfield_reader[i],
                                  committed |-> committedDocs[i]]]
    /\ results' = [results EXCEPT ![s] = NoResult]
    /\ UNCHANGED <<alive, metas, files, writer, reader, fastfield_reader, mergeOp,
                   nextSeg, inserted, committedDocs, lastMerge>>

\* documents the searcher of a Ctx yields for the query
SearchHits(c) == {d \in LiveDocs(c.tv_searcher) : DocMatchesQuery(d)}

SearchInitial(s) ==
    /\ ctx[s].idx # 0
    /\ alive[ctx[s].idx] /\ ~Busy(ctx[s].idx)
    /\ UNCHANGED <<alive, metas, files, writer, reader, fastfield_reader, mergeOp,
                   nextSeg, inserted, committedDocs, ctx, lastMerge>>
    /\ results' = [results EXCEPT ![s] = [done |-> TRUE, docs |-> SearchHits(ctx[s])]]

\* the reader's default reload policy picks up a meta.json changed by a merge
WatcherReload(i) ==
    /\ alive[i]
    /\ reader[i] # metas[i]
    /\ SegIds(metas[i]) \subseteq files[i]
    /\ reader' = [reader EXCEPT ![i] = ReaderReload(@, metas[i])]
    /\ UNCHANGED <<alive, metas, files, writer, fastfield_reader, mergeOp, nextSeg,
                   inserted, committedDocs, ctx, results, lastMerge>>

BinIds(bins) == [b \in DOMAIN bins |->
                    [n \in DOMAIN bins[b].segments |-> bins[b].segments[n].id]]

\* (mutant) the early return taken only below the limit
WithinLimitStrict(segs, max_num_segments) == Len(segs) < max_num_segments

\* segments.len() <= max_num_segments: nothing to merge
WithinLimit(segs, max_num_segments) == Len(segs) <= max_num_segments

\* merge_into_max_segments up to the first writer.merge: prepare_writer,
\* load_metas, the assertion, the early return and the bin packing
MergeIntoMaxSegments(i, max_num_segments) ==
    /\ alive[i] /\ ~Busy(i)
    /\ UNCHANGED <<alive, metas, files, reader, fastfield_reader, nextSeg, inserted,
                   committedDocs, ctx, results, lastMerge>>
    /\ writer' = [writer EXCEPT ![i] = PreparedWriter(@)]
    /\ LET call == [IdleMerge EXCEPT !.k = max_num_segments, !.segments = metas[i],
                                     !.files = files[i]]
           bins == BinIds(NonEmptyBins(MergeCandidates(metas[i], max_num_segments)))
       IN mergeOp' = [mergeOp EXCEPT ![i] =
            IF max_num_segments = 0
            THEN [call EXCEPT !.phase = "aborted"]
            ELSE IF WithinLimit(metas[i], max_num_segments)
            THEN [call EXCEPT !.phase = "done"]
            ELSE [call EXCEPT !.phase = "merge", !.bins = bins, !.pos = 1,
                              !.candidates = MergeCandidates(metas[i], max_num_segments),
                              !.num_segments = NumBins(max_num_segments)]]

\* writer.merge(&segment_ids).wait() returns Ok: the merged segment is in metas
MergeBin(i) ==
    /\ mergeOp[i].phase = "merge"
    /\ LET ids == Range(mergeOp[i].bins[mergeOp[i].pos])
           segs == MetasAfterMerge(metas[i], ids, nextSeg)
       IN /\ metas' = [metas EXCEPT ![i] = segs]
          /\ files' = [files EXCEPT ![i] = @ \cup (SegIds(segs) \ SegIds(metas[i]))]
    /\ nextSeg' = nextSeg + 1
    /\ mergeOp' = [mergeOp EXCEPT ![i] = [@ EXCEPT !.phase = "unlink"]]
    /\ UNCHANGED <<alive, writer, reader, fastfield_reader, inserted, committedDocs, ctx,
                   results, lastMerge>>

\* (mutant) a merge whose error is noticed after the files of its bin are removed
MergeBinFailsUnlinked(i) ==
    /\ mergeOp[i].phase = "merge"
    /\ files' = [files EXCEPT ![i] = @ \ Range(mergeOp[i].bins[mergeOp[i].pos])]
    /\ mergeOp' = [mergeOp EXCEPT ![i] = [@ EXCEPT !.phase = "failed"]]
    /\ UNCHANGED <<alive, metas, writer, reader, fastfield_reader, nextSeg,
                   inserted, committedDocs, ctx, results, lastMerge>>

\* writer.merge(&segment_ids).wait() returns Err: `?` leaves the function
MergeBinFails(i) ==
    /\ mergeOp[i].phase = "merge"
    /\ mergeOp' = [mergeOp EXCEPT ![i] = [@ EXCEPT !.phase = "failed"]]
    /\ UNCHANGED <<alive, metas, files, writer, reader, fastfield_reader, nextSeg,
                   inserted, committedDocs, ctx, results, lastMerge>>

\* (mutant) the files of every bin are removed after the first merge
UnlinkedFilesOfAllBins(op) == UNION {Range(op.bins[b]) : b \in DOMAIN op.bins}

\* the files list_files() names for the segments of the bin just merged
UnlinkedFiles(op) == Range(op.bins[op.pos])

UnlinkBin(i) ==
    /\ mergeOp[i].phase = "unlink"
    /\ files' = [files EXCEPT ![i] = @ \ UnlinkedFiles(mergeOp[i])]
    /\ mergeOp' = [mergeOp EXCEPT ![i] =
            IF @.pos = Len(@.bins)
            THEN [@ EXCEPT !.phase = "done", !.merged = @ + 1]
            ELSE [@ EXCEPT !.phase = "merge", !.pos = @ + 1, !.merged = @ + 1]]
    /\ UNCHANGED <<alive, metas, writer, reader, fastfield_reader, nextSeg, inserted,
                   committedDocs, ctx, results, lastMerge>>

\* documents of index i that no buffered tombstone covers
Untouched(i) ==
    {d \in LiveDocs(metas[i]) \cup BufferedDocs(writer[i]) :
        ~DeletedByLaterOp(writer[i].ops, 0, d)}

\* (mutant) every segment of other_meta is pushed, also one meta holds already
MovedSegmentsAll(selfSegs, otherSegs) == otherSegs

\* segments of other_meta pushed onto meta: those whose id meta does not hold
MovedSegments(selfSegs, otherSegs) ==
    SelectSegs(otherSegs, SegIds(otherSegs) \ SegIds(selfSegs))

\* (mutant) other's metas read without committing other first
MergeOtherMetaUncommitted(j) == metas[j]

\* other.commit() followed by other.tantivy_index.load_metas()
MergeOtherMeta(j) == CommittedMetas(metas[j], PreparedWriter(writer[j]).ops, nextSeg)

Merge(i, j) ==
    /\ i # j
    /\ alive[i] /\ alive[j] /\ ~Busy(i) /\ ~Busy(j)
    /\ alive' = [alive EXCEPT ![j] = FALSE]
    /\ writer' = [writer EXCEPT ![i] = FreshWriter, ![j] = NoWriter]
    /\ LET wi == PreparedWriter(writer[i])
           wj == PreparedWriter(writer[j])
           other_meta == MergeOtherMeta(j)
           seg1 == IF BufferedDocs(wj) = {} THEN nextSeg ELSE nextSeg + 1
           meta == CommittedMetas(metas[i], wi.ops, seg1)
           seg2 == IF BufferedDocs(wi) = {} THEN seg1 ELSE seg1 + 1
           otherFiles == FilesAfterCommit(files[j], metas[j], other_meta)
           selfFiles == FilesAfterCommit(files[i], metas[i], meta)
           moved == MovedSegments(meta, other_meta)
           all == SortByMaxDoc(meta \o moved)
       IN /\ metas' = [metas EXCEPT ![i] = all, ![j] = <<>>]
          /\ files' = [files EXCEPT ![i] = selfFiles \cup (SegIds(moved) \cap otherFiles),
                                    ![j] = {}]
          /\ reader' = [reader EXCEPT ![i] = all, ![j] = <<>>]
          /\ fastfield_reader' = [fastfield_reader EXCEPT ![i] = FastFieldReaderNew(all),
                                                          ![j] = <<>>]
          /\ nextSeg' = seg2
          /\ committedDocs' = [committedDocs EXCEPT ![i] = LiveDocs(all), ![j] = {}]
          /\ lastMerge' = [into |-> i,
                           committed |-> LiveDocs(metas[i]) \cup LiveDocs(metas[j]),
                           bufferedSelf |-> BufferedDocs(writer[i]),
                           bufferedOther |-> BufferedDocs(writer[j]),
                           untouched |-> Untouched(i) \cup Untouched(j),
                           selfIds |-> SegIds(meta),
                           otherIds |-> SegIds(other_meta),
                           renamed |-> SegIds(moved) \cap otherFiles]
    /\ mergeOp' = [mergeOp EXCEPT ![i] = IdleMerge, ![j] = IdleMerge]
    /\ inserted' = [inserted EXCEPT ![i] = inserted[i] \cup inserted[j], ![j] = {}]
    /\ UNCHANGED <<ctx, results>>

\* insert, delete_all_before, commit and searches on one index
IndexNext ==
    \/ \E i \in Indexes : PrepareWriter(i)
    \/ \E i \in Indexes, d \in Docs : Insert(i, d)
    \/ \E i \in Indexes : Commit(i)
    \/ \E i \in Indexes, t \in Cutoffs : DeleteAllBefore(i, t)
    \/ \E s \in Searchers, i \in Indexes : LocalSearchCtx(s, i)
    \/ \E s \in Searchers : SearchInitial(s)

Next == IndexNext /\ UNCHANGED <<queryVars, opticVars, searchVars, serverVars>>

Spec == Init /\ [][Next]_vars

\* insert, delete_all_before, commit and merge_into_max_segments on one index
CompactNext ==
    \/ \E i \in Indexes : PrepareWriter(i)
    \/ \E i \in Indexes, d \in Docs : Insert(i, d)
    \/ \E i \in Indexes : Commit(i)
    \/ \E i \in Indexes, t \in Cutoffs : DeleteAllBefore(i, t)
    \/ \E i \in Indexes : WatcherReload(i)
    \/ \E i \in Indexes, k \in 1..MaxK : MergeIntoMaxSegments(i, k)
    \/ \E i \in Indexes : MergeBin(i)
    \/ \E i \in Indexes : MergeBinFails(i)
    \/ \E i \in Indexes : UnlinkBin(i)

NextCompact == CompactNext /\ UNCHANGED <<queryVars, opticVars, searchVars, serverVars>>

SpecCompact == Init /\ [][NextCompact]_vars

\* one index whose writer is prepared, switched to automatic merges, filled,
\* committed and compacted
WriterNext ==
    \/ \E i \in Indexes : PrepareWriter(i)
    \/ \E i \in Indexes : SetAutoMergePolicy(i)
    \/ \E i \in Indexes, d \in Docs : Insert(i, d)
    \/ \E i \in Indexes : Commit(i)
    \/ \E i \in Indexes, k \in 1..MaxK : MergeIntoMaxSegments(i, k)
    \/ \E i \in Indexes : MergeBin(i)
    \/ \E i \in Indexes : MergeBinFails(i)
    \/ \E i \in Indexes : UnlinkBin(i)

NextWriter == WriterNext /\ UNCHANGED <<queryVars, opticVars, searchVars, serverVars>>

SpecWriter == Init /\ [][NextWriter]_vars

\* two indexes that are filled, other with pending tombstones, and then merged;
\* the run ends with the index that merge returns
TwoIndexNext ==
    /\ alive[1] /\ alive[2]
    /\ \/ \E i \in Indexes : PrepareWriter(i)
       \/ \E i \in Indexes, d \in Docs : Insert(i, d)
       \/ \E i \in Indexes : Commit(i)
       \/ \E t \in Cutoffs : DeleteAllBefore(2, t)
       \/ Merge(1, 2)

NextMerge == TwoIndexNext /\ UNCHANGED <<queryVars, opticVars, searchVars, serverVars>>

SpecMerge == InitMerge /\ [][NextMerge]_vars

\* one merge_into_max_segments call on an index opened on a directory of
\* committed segments, with reloads of the reader in between its steps
SegmentsNext ==
    \/ \E i \in Indexes : WatcherReload(i)
    \/ \E i \in Indexes, k \in 0..MaxSegments :
          mergeOp[i].phase = "idle" /\ MergeIntoMaxSegments(i, k)
    \/ \E i \in Indexes : MergeBin(i)
    \/ \E i \in Indexes : MergeBinFails(i)
    \/ \E i \in Indexes : UnlinkBin(i)

NextSegments == SegmentsNext /\ UNCHANGED <<queryVars, opticVars, searchVars, serverVars>>

SpecSegments == InitSegments /\ [][NextSegments]_vars

\* most segments of a directory whose segments hold deleted documents
MaxPacked == 4

\* meta.json of a directory whose segments may each hold one deleted document:
\* largest max_doc first, whatever the documents still alive
PackedMetas ==
    UNION {{[s \in DOMAIN sizes |->
                LET seg == OpenedMetas(sizes)[s]
                    first == CHOOSE d \in seg.docs : \A e \in seg.docs : d <= e
                IN [seg EXCEPT !.deleted = IF dels[s] THEN {first} ELSE {}]] :
             dels \in [DOMAIN sizes -> BOOLEAN]} :
           sizes \in {z \in SegmentSizes : Len(z) <= MaxPacked}}

\* one index opened on a directory whose segments hold deleted documents
InitPacking ==
    /\ alive = [i \in Indexes |-> i = 1]
    /\ \E opened \in PackedMetas :
          LET segs == [i \in Indexes |-> IF i = 1 THEN opened ELSE <<>>]
          IN /\ \A n \in DOMAIN opened : NumDocs(opened[n]) > 0
             /\ metas = segs
             /\ files = [i \in Indexes |-> SegIds(segs[i])]
             /\ reader = segs
             /\ fastfield_reader = [i \in Indexes |-> FastFieldReaderNew(segs[i])]
             /\ nextSeg = Len(opened) + 1
             /\ inserted = [i \in Indexes |-> LiveDocs(segs[i])]
             /\ committedDocs = [i \in Indexes |-> LiveDocs(segs[i])]
    /\ writer = [i \in Indexes |-> NoWriter]
    /\ mergeOp = [i \in Indexes |-> IdleMerge]
    /\ ctx = [s \in Searchers |-> NoCtx]
    /\ results = [s \in Searchers |-> NoResult]
    /\ lastMerge = NoMerge
    /\ QueryIdle
    /\ OpticIdle
    /\ SearchIdle
    /\ ServerIdle

\* one merge_into_max_segments call on that index
PackingNext ==
    \/ \E i \in Indexes, k \in 1..MaxK :
          mergeOp[i].phase = "idle" /\ MergeIntoMaxSegments(i, k)
    \/ \E i \in Indexes : MergeBin(i)
    \/ \E i \in Indexes : MergeBinFails(i)
    \/ \E i \in Indexes : UnlinkBin(i)

NextPacking == PackingNext /\ UNCHANGED <<queryVars, opticVars, searchVars, serverVars>>

SpecPacking == InitPacking /\ [][NextPacking]_vars

\* two indexes opened on copies of one directory, filled further and then merged
CopyNext ==
    /\ alive[1] /\ alive[2]
    /\ \/ \E i \in Indexes : PrepareWriter(i)
       \/ \E i \in Indexes, d \in Docs : Insert(i, d)
       \/ \E i \in Indexes : Commit(i)
       \/ Merge(1, 2)

NextMergeCopy == CopyNext /\ UNCHANGED <<queryVars, opticVars, searchVars, serverVars>>

SpecMergeCopy == InitMergeCopy /\ [][NextMergeCopy]_vars

------------------------------------------------------------------------------
(* Claims about the segment store *)

\* C1: a search never returns a document that is still buffered in the writer
\* (inserted, its commit not yet returned), and a search whose Ctx was taken
\* after a commit returned yields every matching live document of that commit.
C1_CommitAtomicity ==
    \A s \in Searchers :
        results[s].done =>
            /\ results[s].docs \cap BufferedDocs(writer[ctx[s].idx]) = {}
            /\ {d \in ctx[s].committed : DocMatchesQuery(d)} \subseteq results[s].docs

\* a search has returned a committed document while a matching one is still buffered
C1_Witness ==
    \E s \in Searchers :
        /\ results[s].done
        /\ results[s].docs # {}
        /\ \E d \in BufferedDocs(writer[ctx[s].idx]) : DocMatchesQuery(d)

\* C2: the reader, every Ctx and every search result hold exactly the live
\* documents of one commit (the one that was the latest when the snapshot was
\* taken), never a part of a commit or a mix of two.
C2_SnapshotOfOneCommit ==
    /\ \A i \in Indexes : alive[i] => LiveDocs(reader[i]) = committedDocs[i]
    /\ \A s \in Searchers :
          /\ ctx[s].idx # 0 => LiveDocs(ctx[s].tv_searcher) = ctx[s].committed
          /\ results[s].done =>
                results[s].docs = {d \in ctx[s].committed : DocMatchesQuery(d)}

\* a search has run on the snapshot of an earlier commit after a later commit
\* changed the set of live documents
C2_Witness ==
    \E s \in Searchers :
        /\ results[s].done
        /\ LiveDocs(ctx[s].tv_searcher) # {}
        /\ LiveDocs(ctx[s].tv_searcher) # committedDocs[ctx[s].idx]

\* C3: the live documents stay those of the last commit through every step of
\* merge_into_max_segments, in meta.json, on disk and in the reader: merging
\* and unlinking lose no document and leave none in two segments.
C3_MergePreservesLiveDocs ==
    \A i \in Indexes :
        alive[i] =>
            /\ LiveDocs(metas[i]) = committedDocs[i]
            /\ Searchable(i) = committedDocs[i]
            /\ LiveDocs(reader[i]) = committedDocs[i]
            /\ \A d \in Docs : DocCount(metas[i], d) <= 1

\* a merge_into_max_segments call has merged two bins, unlinked their files
\* and returned, on an index that holds live documents
C3_Witness ==
    \E i \in Indexes :
        /\ mergeOp[i].phase = "done"
        /\ mergeOp[i].merged > 1
        /\ Searchable(i) # {}
        /\ Len(metas[i]) > 1

\* position of document d in the writer's buffer, 0 when it is committed
OpPosition(w, d) ==
    IF d \in BufferedDocs(w)
    THEN CHOOSE n \in DOMAIN w.ops : w.ops[n] = AddOp(d)
    ELSE 0

\* C9 as stated: after the commit that follows delete_all_before(t), exactly the
\* documents with InsertionTimestamp < t are gone.
C9_Original ==
    [][\A i \in Indexes : Commit(i) =>
          \A d \in LiveDocs(metas[i]) \cup BufferedDocs(writer[i]) :
              d \in LiveDocs(metas'[i]) <=>
                  ~\E q \in DOMAIN writer[i].ops :
                      writer[i].ops[q].op = "del" /\ Timestamp(d) < writer[i].ops[q].arg]_vars

\* C9 (amended): delete_all_before(t) leaves metas and reader as they are; the
\* next commit removes exactly the documents with InsertionTimestamp < t that
\* were inserted before the delete_all_before call, and keeps every other one.
C9_DeleteAppliesAtCommit ==
    [][\A i \in Indexes :
          /\ (\E t \in Cutoffs : DeleteAllBefore(i, t)) =>
                metas'[i] = metas[i] /\ reader'[i] = reader[i]
          /\ Commit(i) =>
                /\ \A d \in LiveDocs(metas[i]) \cup BufferedDocs(writer[i]) :
                      d \in LiveDocs(metas'[i]) <=>
                          ~\E q \in DOMAIN writer[i].ops :
                              /\ writer[i].ops[q].op = "del"
                              /\ q > OpPosition(writer[i], d)
                              /\ Timestamp(d) < writer[i].ops[q].arg
                /\ LiveDocs(reader'[i]) = LiveDocs(metas'[i])]_vars

\* one commit has removed a document and kept a document of the same timestamp
\* that was inserted after the delete_all_before call
C9_Witness ==
    \E i \in Indexes : \E n \in DOMAIN metas[i] :
        \E d1 \in metas[i][n].deleted : \E d2 \in metas[i][n].docs \ metas[i][n].deleted :
            Timestamp(d1) = Timestamp(d2)

\* C10: merge commits both indexes first, so every document of either index,
\* committed or buffered, that no pending tombstone covers is searchable in the
\* returned index, which has a prepared writer.
C10_MergeKeepsAllDocuments ==
    lastMerge.into # 0 =>
        /\ lastMerge.untouched \subseteq LiveDocs(reader[lastMerge.into])
        /\ lastMerge.untouched \subseteq Searchable(lastMerge.into)
        /\ writer[lastMerge.into].prepared

\* a merge has returned an index holding documents that were committed and
\* documents that were only buffered, in self and in other
C10_Witness ==
    /\ lastMerge.into = 1
    /\ lastMerge.committed # {}
    /\ lastMerge.bufferedSelf # {}
    /\ lastMerge.bufferedOther # {}
    /\ lastMerge.untouched =
          lastMerge.committed \cup lastMerge.bufferedSelf \cup lastMerge.bufferedOther

\* C11: the index that merge returns lists every segment id of self and of other
\* exactly once; a segment of other whose id self holds already is not pushed
\* again and its files are not renamed into self's directory.
C11_MergeKeepsIdsUnique ==
    lastMerge.into # 0 =>
        LET segs == metas[lastMerge.into]
        IN /\ SegIds(segs) = lastMerge.selfIds \cup lastMerge.otherIds
           /\ Cardinality(SegIds(segs)) = Len(segs)
           /\ lastMerge.renamed = lastMerge.otherIds \ lastMerge.selfIds
           /\ files[lastMerge.into] = SegIds(segs)

\* a merge has returned where other held a segment id of self and one of its own
C11_Witness ==
    /\ lastMerge.into = 1
    /\ lastMerge.selfIds \cap lastMerge.otherIds # {}
    /\ lastMerge.otherIds \ lastMerge.selfIds # {}
    /\ lastMerge.selfIds \ lastMerge.otherIds # {}

\* segments the latest merge_into_max_segments call found whose files are gone
Unlinked(i) == mergeOp[i].files \ files[i]

\* segments of the bins that the latest call has merged and unlinked
Consumed(i) == UNION {Range(mergeOp[i].bins[b]) : b \in 1..mergeOp[i].merged}

\* C12: during merge_into_max_segments the files that are gone are exactly those
\* of the bins whose merge has returned: none of them is listed in metas any
\* more, their live documents are in the merged segments that metas lists, and
\* every segment metas lists has its files.
C12_UnlinkOnlyAfterMerge ==
    \A i \in Indexes :
        /\ Unlinked(i) = Consumed(i)
        /\ Unlinked(i) \cap SegIds(metas[i]) = {}
        /\ LiveDocs(SelectSegs(mergeOp[i].segments, Unlinked(i)))
              \subseteq LiveDocs(SelectSegs(metas[i], SegIds(metas[i]) \ mergeOp[i].files))
        /\ SegIds(metas[i]) \subseteq files[i]

\* the first bin has been merged and unlinked while a second bin is still waiting
C12_Witness ==
    /\ mergeOp[1].phase = "merge"
    /\ mergeOp[1].merged = 1
    /\ Unlinked(1) # {}
    /\ Range(mergeOp[1].bins[2]) \subseteq files[1] \cap SegIds(metas[1])

\* C13 as stated: when a merge has failed, none of the segments that existed
\* before the call has had its files unlinked, also not those of earlier bins
C13_Original ==
    \A i \in Indexes : mergeOp[i].phase = "failed" => Unlinked(i) = {}

\* C13: when the merge of a bin fails, the call returns the error with the
\* segments of that bin and of the bins after it still listed in metas and on
\* disk; the bins before it stay merged and their segments' files stay unlinked.
\* Every live document is still searchable, and if the first bin was the one
\* that failed, metas and files are those the call found.
C13_FailureKeepsUnmergedBins ==
    \A i \in Indexes :
        mergeOp[i].phase = "failed" =>
            LET op == mergeOp[i]
            IN /\ op.pos = op.merged + 1
               /\ \A b \in op.pos..Len(op.bins) :
                     Range(op.bins[b]) \subseteq files[i] \cap SegIds(metas[i])
               /\ Unlinked(i) = Consumed(i)
               /\ Len(metas[i]) = Len(op.segments) - Cardinality(Consumed(i)) + op.merged
               /\ Searchable(i) = LiveDocs(op.segments)
               /\ op.merged = 0 => metas[i] = op.segments /\ files[i] = op.files

\* the merge of a second bin has failed after the first bin was merged and unlinked
C13_Witness ==
    /\ mergeOp[1].phase = "failed"
    /\ mergeOp[1].merged >= 1
    /\ Unlinked(1) # {}

\* C14: merge_into_max_segments(k) with k >= 1 on an index of at most k segments
\* returns Ok without a merge and leaves metas and files as it found them; with
\* k = 0 it stops at the assertion, whatever the number of segments.
C14_NoMergeWithinLimit ==
    \A i \in Indexes :
        LET op == mergeOp[i]
        IN /\ (op.phase # "idle" /\ op.k >= 1 /\ Len(op.segments) <= op.k) =>
                 /\ op.phase = "done"
                 /\ op.merged = 0 /\ op.bins = <<>>
                 /\ metas[i] = op.segments
                 /\ files[i] = op.files
           /\ (op.phase # "idle" /\ op.k = 0) =>
                 /\ op.phase = "aborted"
                 /\ metas[i] = op.segments
                 /\ files[i] = op.files
           /\ op.phase = "aborted" => op.k = 0

\* a call with k equal to the number of segments, two or more, has returned
C14_Witness ==
    /\ mergeOp[1].phase = "done"
    /\ mergeOp[1].k >= 2
    /\ Len(mergeOp[1].segments) = mergeOp[1].k
    /\ writer[1].prepared

\* C15 as stated: with more than k segments the call makes ceil((k+1)/2) bins
C15_Original ==
    \A i \in Indexes :
        mergeOp[i].num_segments > 0 =>
            /\ 2 * mergeOp[i].num_segments >= mergeOp[i].k + 1
            /\ 2 * (mergeOp[i].num_segments - 1) < mergeOp[i].k + 1

\* C15: with more than k segments the call makes ceil(k/2) bins, which is
\* (k+1)/2 for an odd k and k/2 for an even k; none of them stays empty and
\* every segment is in exactly one of them.
C15_BinsAreHalfOfK ==
    \A i \in Indexes :
        LET op == mergeOp[i]
            sum[b \in 0..Len(op.bins)] == IF b = 0 THEN 0 ELSE sum[b - 1] + Len(op.bins[b])
        IN op.num_segments > 0 =>
            /\ Len(op.segments) > op.k
            /\ 2 * op.num_segments >= op.k
            /\ 2 * (op.num_segments - 1) < op.k
            /\ Len(op.bins) = op.num_segments
            /\ UNION {Range(op.bins[b]) : b \in DOMAIN op.bins} = SegIds(op.segments)
            /\ sum[Len(op.bins)] = Len(op.segments)

\* a call with an even k has packed more than k segments into k/2 bins
C15_Witness ==
    /\ mergeOp[1].phase = "merge"
    /\ mergeOp[1].k = 4
    /\ Len(mergeOp[1].bins) = 2
    /\ Len(mergeOp[1].segments) > 4

\* C16 as stated: a bin that received exactly one segment is skipped, so its
\* segment stays in metas and keeps its files
C16_Original ==
    \A i \in Indexes : \A b \in DOMAIN mergeOp[i].bins :
        Len(mergeOp[i].bins[b]) = 1 =>
            Range(mergeOp[i].bins[b]) \subseteq files[i] \cap SegIds(metas[i])

\* C16: only a bin without segments is skipped. A bin of one segment is merged
\* like any other: once the call is past it, its segment is neither in metas nor
\* on disk, and a call that returns Ok has replaced every segment it found, one
\* new segment per bin.
C16_SingleSegmentBinIsMerged ==
    \A i \in Indexes :
        LET op == mergeOp[i]
        IN /\ \A b \in 1..op.merged :
                 Range(op.bins[b]) \cap (files[i] \cup SegIds(metas[i])) = {}
           /\ (op.phase = "done" /\ op.num_segments > 0) =>
                 /\ op.merged = op.num_segments
                 /\ Len(metas[i]) = op.num_segments
                 /\ SegIds(metas[i]) \cap SegIds(op.segments) = {}
                 /\ files[i] = SegIds(metas[i])

\* a call has returned Ok after merging a bin that held a single segment
C16_Witness ==
    /\ mergeOp[1].phase = "done"
    /\ \E b \in DOMAIN mergeOp[1].bins :
          /\ Len(mergeOp[1].bins[b]) = 1
          /\ Range(mergeOp[1].bins[b]) \cap (files[1] \cup SegIds(metas[1])) = {}

\* position in the segments a call found of the segment with the given id
FoundAt(op, id) == CHOOSE n \in DOMAIN op.segments : op.segments[n].id = id

\* s is taken before t: it has more documents, or as many and comes first in
\* the segments the call found
TakenBefore(op, s, t) ==
    \/ NumDocs(s) > NumDocs(t)
    \/ NumDocs(s) = NumDocs(t) /\ FoundAt(op, s.id) < FoundAt(op, t.id)

RECURSIVE SumNumDocs(_)
SumNumDocs(segs) == IF segs = <<>> THEN 0 ELSE NumDocs(Head(segs)) + SumNumDocs(Tail(segs))

\* num_docs of bin b when segment t is taken
LoadBefore(op, b, t) ==
    SumNumDocs(SelectSeq(op.candidates[b].segments, LAMBDA s : TakenBefore(op, s, t)))

\* C24: in a merge_into_max_segments call that packs bins, the bin a segment is
\* in was, among the segments taken before it (those with more documents, and
\* those with as many that come earlier in the input), no fuller than any
\* other bin and emptier than every bin before it; the segments of a bin are in
\* the order taken, every segment the call found is in exactly one bin, and the
\* num_docs of a bin is the sum of the num_docs of its segments
C24_GreedyBinPacking ==
    \A i \in Indexes :
        LET op == mergeOp[i]
            bins == op.candidates
        IN bins # <<>> =>
            /\ Len(bins) = op.num_segments
            /\ \A n \in DOMAIN op.segments :
                  Cardinality({<<b, m>> \in (DOMAIN bins) \X (DOMAIN op.segments) :
                                  /\ m \in DOMAIN bins[b].segments
                                  /\ bins[b].segments[m] = op.segments[n]}) = 1
            /\ \A b \in DOMAIN bins :
                  /\ bins[b].num_docs = SumNumDocs(bins[b].segments)
                  /\ Range(bins[b].segments) \subseteq Range(op.segments)
                  /\ \A m, n \in DOMAIN bins[b].segments :
                        m < n => TakenBefore(op, bins[b].segments[m], bins[b].segments[n])
                  /\ \A m \in DOMAIN bins[b].segments :
                        \A c \in DOMAIN bins :
                           LET t == bins[b].segments[m]
                           IN /\ LoadBefore(op, c, t) >= LoadBefore(op, b, t)
                              /\ c < b => LoadBefore(op, c, t) > LoadBefore(op, b, t)

\* a call whose segments are not found in the order they are taken, with two
\* bins that tie when the second segment is placed
C24_Witness ==
    /\ mergeOp[1].phase = "merge"
    /\ Len(mergeOp[1].candidates) >= 2
    /\ SortByNumDocs(mergeOp[1].segments) # mergeOp[1].segments
    /\ \E b \in DOMAIN mergeOp[1].candidates : Len(mergeOp[1].candidates[b].segments) >= 2

\* C28: once a merge_into_max_segments(k) call with k >= 1 that found more
\* than k segments has returned Ok, the index has at most k segments
C28_AtMostKSegments ==
    \A i \in Indexes :
        LET op == mergeOp[i]
        IN (op.phase = "done" /\ op.k >= 1 /\ Len(op.segments) > op.k) =>
              Len(metas[i]) <= op.k

\* a call with k = 3 on six segments has returned Ok and left two segments
C28_Witness ==
    /\ mergeOp[1].phase = "done"
    /\ mergeOp[1].k = 3
    /\ Len(mergeOp[1].segments) = 6
    /\ mergeOp[1].merged = 2
    /\ Len(metas[1]) = 2

\* C19: a prepare_writer call on an index that has a writer changes nothing of
\* the writer, and neither does the call that commit and merge_into_max_segments
\* make first: the merge policy stays what it was, the documents buffered since
\* the last commit stay buffered (merge_into_max_segments) or are committed
\* (commit).
C19_PrepareWriterIdempotent ==
    [][\A i \in Indexes :
          writer[i].prepared =>
              /\ PrepareWriter(i) => writer'[i] = writer[i]
              /\ (\E k \in 1..MaxK : MergeIntoMaxSegments(i, k)) => writer'[i] = writer[i]
              /\ Commit(i) =>
                    /\ writer'[i].prepared
                    /\ writer'[i].policy = writer[i].policy
                    /\ BufferedDocs(writer[i]) \subseteq LiveDocs(metas'[i])]_vars

\* merge_into_max_segments has returned on an index whose writer merges
\* automatically and still buffers a document inserted before the call
C19_Witness ==
    /\ mergeOp[1].phase = "done"
    /\ writer[1].policy = "LogMerge"
    /\ BufferedDocs(writer[1]) # {}
    /\ LiveDocs(metas[1]) # {}

------------------------------------------------------------------------------
(* Query::parse: the term list *)

MAX_SIMILAR_TERMS == 10

MaxRepeat == 11

\* parser::Term values of the model; text is the term's text as tokens, " " a whitespace
SimpleThe == [kind |-> "Simple", text |-> <<"the">>]
PhraseTheThe == [kind |-> "Phrase", text |-> <<"the", " ", "the">>]
SiteA == [kind |-> "Site", text |-> <<"a">>]
Terms == {SimpleThe, PhraseTheThe, SiteA}
Words == {"the", "a"}

Repeat(term, n) == [m \in 1..n |-> term]

\* outputs of parser::parse: up to three runs of repeated terms
ParserOutputs ==
    {Repeat(t1, n1) \o Repeat(t2, n2) \o Repeat(t3, n3) :
        t1 \in {SimpleThe}, t2 \in Terms, t3 \in Terms \ {SiteA},
        n1 \in 0..MaxRepeat, n2 \in 0..MaxRepeat, n3 \in 0..MaxRepeat}

Count(seq, x) == Cardinality({n \in DOMAIN seq : seq[n] = x})

\* (mutant) every parsed term is pushed
KeepAllTerms(parsed) == parsed

\* the loop over parsed_terms with term_count: a term is pushed while fewer than
\* MAX_SIMILAR_TERMS equal terms came before it
DedupTerms(parsed) ==
    LET count(n) == Cardinality({m \in 1..(n - 1) : parsed[m] = parsed[n]})
        kept == {n \in DOMAIN parsed : count(n) < MAX_SIMILAR_TERMS}
        nth(k) == CHOOSE n \in kept : Cardinality({m \in kept : m < n}) = k - 1
    IN [k \in 1..Cardinality(kept) |-> parsed[nth(k)]]

\* Term::as_simple_text: the text of a simple or phrase term, None for field terms
AsSimpleText(term) ==
    IF term.kind \in {"Simple", "Phrase"}
    THEN [some |-> TRUE, text |-> term.text]
    ELSE [some |-> FALSE, text |-> <<>>]

\* str::split_ascii_whitespace
SplitAsciiWhitespace(text) == SelectSeq(text, LAMBDA c : c # " ")

RECURSIVE FlatMapWords(_)
FlatMapWords(terms) ==
    IF terms = <<>> THEN <<>>
    ELSE LET simple == AsSimpleText(Head(terms))
         IN (IF simple.some THEN SplitAsciiWhitespace(simple.text) ELSE <<>>)
                \o FlatMapWords(Tail(terms))

\* simple_terms_text of Query::parse
SimpleTermsText(terms) == FlatMapWords(terms)

QueryInit ==
    /\ parsed_terms \in ParserOutputs
    /\ query = NoQuery

QueryParse ==
    /\ ~query.parsed
    /\ LET terms == DedupTerms(parsed_terms)
       IN query' = [parsed |-> TRUE, terms |-> terms,
                    simple_terms_text |-> SimpleTermsText(terms)]
    /\ UNCHANGED parsed_terms

InitQuery ==
    /\ alive = [i \in Indexes |-> i = 1]
    /\ IndexInit
    /\ QueryInit
    /\ OpticIdle
    /\ SearchIdle
    /\ ServerIdle

NextQuery == QueryParse /\ UNCHANGED <<indexVars, opticVars, searchVars, serverVars>>

SpecQuery == InitQuery /\ [][NextQuery]_vars

\* number of times word w occurs in the text of a term that has a simple text
WordCount(term, w) ==
    IF term.kind \in {"Simple", "Phrase"} THEN Count(term.text, w) ELSE 0

RECURSIVE SumWordCount(_, _)
SumWordCount(terms, w) ==
    IF terms = <<>> THEN 0
    ELSE WordCount(Head(terms), w) + SumWordCount(Tail(terms), w)

\* the first 10 occurrences of every term of the input, in the input's order
FirstOccurrences(parsed) ==
    LET early(n) == Cardinality({m \in 1..(n - 1) : parsed[m] = parsed[n]}) < 10
        RECURSIVE keep(_)
        keep(n) ==
            IF n > Len(parsed) THEN <<>>
            ELSE (IF early(n) THEN <<parsed[n]>> ELSE <<>>) \o keep(n + 1)
    IN keep(1)

\* C5 as stated: after Query::parse no term occurs more than 10 times in
\* terms(), no word occurs more than 10 times in simple_terms(), and the
\* occurrences kept are the first 10 in their original order.
C5_Original ==
    query.parsed =>
        /\ \A t \in Terms : Count(query.terms, t) <= 10
        /\ \A w \in Words : Count(query.simple_terms_text, w) <= 10
        /\ query.terms = FirstOccurrences(parsed_terms)

\* C5 (amended): after Query::parse no term occurs more than 10 times in
\* terms(), the occurrences kept being the first 10 in their original order;
\* simple_terms() holds exactly the words of the kept simple and phrase terms,
\* so a word is bounded by 10 per distinct term holding it, not by 10 overall.
C5_TermsDeduplicated ==
    query.parsed =>
        /\ \A t \in Terms : Count(query.terms, t) <= 10
        /\ query.terms = FirstOccurrences(parsed_terms)
        /\ \A w \in Words :
              /\ Count(query.simple_terms_text, w) = SumWordCount(query.terms, w)
              /\ Count(query.simple_terms_text, w) <=
                    10 * SumWordCount(SetToSeq({t \in Terms : Count(parsed_terms, t) > 0}), w)

\* a parsed query that dropped occurrences of a term and still holds a word
\* more than 10 times in simple_terms()
C5_Witness ==
    /\ query.parsed
    /\ Len(query.terms) < Len(parsed_terms)
    /\ \E t \in Terms : Count(parsed_terms, t) > 10 /\ Count(query.terms, t) = 10
    /\ \E w \in Words : Count(query.simple_terms_text, w) > 10

------------------------------------------------------------------------------
(* The optic compiler and the compiled query's result set *)

MaxRules == 2

Hosts == {"a", "b"}

\* optics::Matching values of the model
SiteMatchA == [location |-> "Site", pattern |-> "a"]
TitleMatchX == [location |-> "Title", pattern |-> "x"]

\* Rule.matches values of the model: no block, an empty block, one matching,
\* a conjunction and a disjunction
MatchesBlocks ==
    { <<>>, << <<>> >>, << <<SiteMatchA>> >>, << <<TitleMatchX>> >>,
      << <<SiteMatchA, TitleMatchX>> >>, << <<SiteMatchA>>, <<TitleMatchX>> >> }

Actions == {"Boost", "Downrank", "Discard"}

Rules == [matches : MatchesBlocks, action : Actions]

RuleLists == UNION {[1..n -> Rules] : n \in 0..MaxRules}

\* HostRankings.blocked of the caller and of an optic program
BlockedLists == {<<>>, <<"a">>, <<"b">>, <<"a", "b">>}
OpticBlockedLists == {<<>>, <<"b">>}

NoHostRankings == [some |-> FALSE, liked |-> <<>>, disliked |-> <<>>, blocked |-> <<>>]
NoOptic == [some |-> FALSE]

Optics ==
    [some : {TRUE}, rules : RuleLists, discard_non_matching : BOOLEAN,
     host_rankings : [some : {TRUE}, liked : {<<>>}, disliked : {<<>>},
                      blocked : OpticBlockedLists]]

\* SearchQuery values: query text matched through the flag base of a document;
\* terms holds the Occur of the clause each term of the query text compiles to
Requests ==
    {[used |-> TRUE, safe_search |-> FALSE, terms |-> <<"Must">>,
      host_rankings |-> hr, optic |-> op] :
        hr \in {NoHostRankings}
                 \cup [some : {TRUE}, liked : {<<>>}, disliked : {<<>>}, blocked : BlockedLists],
        op \in {NoOptic} \cup Optics}

\* the indexed webpages: base says whether the page matches the query terms
Corpus == [base : BOOLEAN, site : Hosts, title : SUBSET {"x"}]

\* safety_classifier::Label of a webpage, "none" for an unclassified one
Labels == {"NSFW", "SFW", "none"}

\* indexed webpages that carry a safety classification
SafeCorpus == [base : BOOLEAN, site : Hosts, title : SUBSET {"x"}, safety : Labels]

\* tokens of the fields and of the patterns matched token by token
Tokens == {"a", "b"}

\* tokenised values of a field
FieldValues == UNION {[1..n -> Tokens] : n \in 0..MaxTokens}

\* patterns: tokens and wildcards, with or without an anchor at either end
Patterns ==
    {left \o body \o right :
        left \in {<<>>, <<"|">>}, right \in {<<>>, <<"|">>},
        body \in UNION {[1..n -> Tokens \cup {"*"}] : n \in 1..MaxParts}}

\* webpages whose body holds the tokens a Content pattern is matched against
PatternCorpus == [base : {TRUE}, site : {"a"}, title : {{}}, content : FieldValues]

\* SearchQuery values whose optic discards the webpages a Content pattern matches
PatternRequests ==
    {[used |-> TRUE, safe_search |-> FALSE, terms |-> <<"Must">>,
      host_rankings |-> NoHostRankings,
      optic |-> [some |-> TRUE, discard_non_matching |-> FALSE,
                 host_rankings |-> [some |-> TRUE, liked |-> <<>>, disliked |-> <<>>,
                                    blocked |-> <<>>],
                 rules |-> <<[matches |-> << <<[location |-> "Content", pattern |-> p]>> >>,
                              action |-> "Discard"]>>]] :
        p \in Patterns}

\* SearchQuery values with the safe_search flag and queries of up to two terms
SafeRequests ==
    [used : {TRUE}, safe_search : BOOLEAN,
     terms : UNION {[1..n -> {"Must", "Should", "MustNot"}] : n \in 0..2},
     host_rankings : {NoHostRankings,
                      [some |-> TRUE, liked |-> <<>>, disliked |-> <<>>, blocked |-> <<"a">>]},
     optic : {NoOptic} \cup {op \in Optics : Len(op.rules) <= 1 /\ op.host_rankings.blocked = <<>>}]

\* SearchQuery values whose host rankings and optic program both like, dislike
\* and block hosts
RankedRequests ==
    {[used |-> TRUE, safe_search |-> FALSE, terms |-> <<"Must">>,
      host_rankings |-> hr, optic |-> op] :
        hr \in {NoHostRankings}
                 \cup [some : {TRUE}, liked : {<<>>, <<"a">>, <<"a", "b">>},
                       disliked : {<<>>, <<"b">>}, blocked : BlockedLists],
        op \in {NoOptic}
                 \cup [some : {TRUE},
                       rules : {<<>>, <<[matches |-> << <<TitleMatchX>> >>, action |-> "Boost"]>>},
                       discard_non_matching : BOOLEAN,
                       host_rankings : [some : {TRUE}, liked : {<<>>, <<"a">>, <<"b">>},
                                        disliked : {<<>>, <<"a">>},
                                        blocked : OpticBlockedLists]]}

\* most Matches blocks of a rule and most matchings of a block
MaxBlocks == 2
MaxMatchings == 2

\* Matches blocks of any shape, empty ones included
RuleBlocks ==
    LET blocks == UNION {[1..n -> {SiteMatchA, TitleMatchX}] : n \in 0..MaxMatchings}
    IN UNION {[1..n -> blocks] : n \in 0..MaxBlocks}

\* SearchQuery values whose optic holds one rule
RuleRequests ==
    {[used |-> TRUE, safe_search |-> FALSE, terms |-> <<"Must">>,
      host_rankings |-> NoHostRankings,
      optic |-> [some |-> TRUE, discard_non_matching |-> dnm,
                 host_rankings |-> [some |-> TRUE, liked |-> <<>>, disliked |-> <<>>,
                                    blocked |-> <<>>],
                 rules |-> <<[matches |-> matches, action |-> action]>>]] :
        dnm \in BOOLEAN, matches \in RuleBlocks, action \in Actions}

Anchored(pattern, n) == pattern[n] = "|"

\* the parts of a pattern between its anchors
PatternBody(pattern) ==
    SubSeq(pattern, IF Anchored(pattern, 1) THEN 2 ELSE 1,
                    IF Anchored(pattern, Len(pattern)) THEN Len(pattern) - 1 ELSE Len(pattern))

\* the scan of a field for the parts left of a pattern: from is the next
\* position of the field, slop says whether tokens may be skipped before the
\* next part, as they may after a wildcard and at an unanchored start
RECURSIVE PatternScan(_, _, _, _, _)
PatternScan(parts, value, from, slop, right) ==
    IF parts = <<>> THEN ~right \/ slop \/ from = Len(value) + 1
    ELSE IF Head(parts) = "*" THEN PatternScan(Tail(parts), value, from, TRUE, right)
    ELSE IF slop
         THEN \E at \in from..Len(value) :
                  /\ value[at] = Head(parts)
                  /\ PatternScan(Tail(parts), value, at + 1, FALSE, right)
         ELSE /\ from <= Len(value)
              /\ value[from] = Head(parts)
              /\ PatternScan(Tail(parts), value, from + 1, FALSE, right)

\* PatternQuery over a tokenised field
PatternQueryMatches(pattern, value) ==
    PatternScan(PatternBody(pattern), value, 1, ~Anchored(pattern, 1),
                Anchored(pattern, Len(pattern)))

\* PatternQuery on the field of the matching's location
PatternMatches(matching, doc) ==
    IF matching.location = "Site"
    THEN doc.site = matching.pattern
    ELSE IF matching.location = "Title"
    THEN matching.pattern \in doc.title
    ELSE PatternQueryMatches(matching.pattern, doc.content)

TermQuery == [kind |-> "term"]
SafetyQuery(label) == [kind |-> "safety", label |-> label]
PatternQuery(matching) == [kind |-> "pattern", matching |-> matching]
ConstQuery(q) == [kind |-> "const", query |-> q]
BooleanQuery(clauses) == [kind |-> "boolean", clauses |-> clauses]
UnionQuery(queries) == [kind |-> "union", queries |-> queries]
Clause(occur, q) == [occur |-> occur, query |-> q]

\* (mutant) every pattern is looked up in the Title field
MatchingAsTantivyInTitle(matching) ==
    ConstQuery(PatternQuery([matching EXCEPT !.location = "Title"]))

\* Matching::as_tantivy for the Site, Title and Content locations
MatchingAsTantivy(matching) == ConstQuery(PatternQuery(matching))

\* (mutant) Discard attached as Should
OccurAlwaysShould(action) == "Should"

\* (mutant) Boost attached as Must
OccurBoostMust(action) ==
    IF action = "Discard" THEN "MustNot" ELSE IF action = "Boost" THEN "Must" ELSE "Should"

\* the Occur chosen by the match on self.action in as_searchable_rule
ActionOccur(action) == IF action = "Discard" THEN "MustNot" ELSE "Should"

NoSearchableRule == [some |-> FALSE]

\* (mutant) a block matches when any of its matchings does
AsSearchableRuleAnyOfBlock(rule) ==
    LET blocks == SelectSeq(rule.matches, LAMBDA and_rule : and_rule # <<>>)
        and_query(and_rule) ==
            IF Len(and_rule) = 1
            THEN MatchingAsTantivy(and_rule[1])
            ELSE BooleanQuery([n \in DOMAIN and_rule |->
                                  Clause("Should", MatchingAsTantivy(and_rule[n]))])
        subqueries == [n \in DOMAIN blocks |-> Clause("Should", and_query(blocks[n]))]
        subquery == IF Len(subqueries) = 1
                    THEN subqueries[1].query
                    ELSE BooleanQuery(subqueries)
    IN IF subqueries = <<>>
       THEN NoSearchableRule
       ELSE [some |-> TRUE, occur |-> ActionOccur(rule.action),
             query |-> IF rule.action = "Discard" THEN subquery ELSE ConstQuery(subquery)]

\* (mutant) an empty block is compiled to a query without clauses
AsSearchableRuleKeepsEmpty(rule) ==
    LET and_query(and_rule) ==
            IF Len(and_rule) = 1
            THEN MatchingAsTantivy(and_rule[1])
            ELSE BooleanQuery([n \in DOMAIN and_rule |->
                                  Clause("Must", MatchingAsTantivy(and_rule[n]))])
        subqueries == [n \in DOMAIN rule.matches |->
                          Clause("Should", and_query(rule.matches[n]))]
        subquery == IF Len(subqueries) = 1
                    THEN subqueries[1].query
                    ELSE BooleanQuery(subqueries)
    IN IF subqueries = <<>>
       THEN NoSearchableRule
       ELSE [some |-> TRUE, occur |-> ActionOccur(rule.action),
             query |-> IF rule.action = "Discard" THEN subquery ELSE ConstQuery(subquery)]

\* Rule::as_searchable_rule
AsSearchableRule(rule) ==
    LET blocks == SelectSeq(rule.matches, LAMBDA and_rule : and_rule # <<>>)
        and_query(and_rule) ==
            IF Len(and_rule) = 1
            THEN MatchingAsTantivy(and_rule[1])
            ELSE BooleanQuery([n \in DOMAIN and_rule |->
                                  Clause("Must", MatchingAsTantivy(and_rule[n]))])
        subqueries == [n \in DOMAIN blocks |-> Clause("Should", and_query(blocks[n]))]
        subquery == IF Len(subqueries) = 1
                    THEN subqueries[1].query
                    ELSE BooleanQuery(subqueries)
    IN IF subqueries = <<>>
       THEN NoSearchableRule
       ELSE [some |-> TRUE, occur |-> ActionOccur(rule.action),
             query |-> IF rule.action = "Discard" THEN subquery ELSE ConstQuery(subquery)]

\* rules.filter_map(as_searchable_rule)
SearchableRules(rules) ==
    SelectSeq([n \in DOMAIN rules |-> AsSearchableRule(rules[n])], LAMBDA r : r.some)

\* HostRankings::rules: one Discard rule with a Site matching per blocked host
HostRankingsRules(host_rankings) ==
    [matches |-> [n \in DOMAIN host_rankings.blocked |->
                     <<[location |-> "Site", pattern |-> host_rankings.blocked[n]]>>],
     action |-> "Discard"]

\* HostRankings::into_optic: an optic without rules carrying the host rankings
IntoOptic(host_rankings) ==
    [some |-> TRUE, rules |-> <<>>, discard_non_matching |-> FALSE,
     host_rankings |-> host_rankings]

\* (mutant) the else branch taken whatever discard_non_matching says
AsMultipleTantivyNoBlock(optic) ==
    LET searchable == SearchableRules(optic.rules \o <<HostRankingsRules(optic.host_rankings)>>)
    IN [n \in DOMAIN searchable |-> Clause(searchable[n].occur, searchable[n].query)]

\* Optic::as_multiple_tantivy
AsMultipleTantivy(optic) ==
    IF optic.discard_non_matching
    THEN LET keepers == SearchableRules(SelectSeq(optic.rules, LAMBDA r : r.action # "Discard"))
             block == Clause("Must",
                         UnionQuery([n \in DOMAIN keepers |->
                             BooleanQuery(<<Clause(keepers[n].occur, keepers[n].query)>>)]))
             discards == SearchableRules(
                             SelectSeq(optic.rules, LAMBDA r : r.action = "Discard")
                                 \o <<HostRankingsRules(optic.host_rankings)>>)
         IN [n \in DOMAIN discards |-> Clause(discards[n].occur, discards[n].query)]
                \o <<block>>
    ELSE LET searchable ==
                 SearchableRules(optic.rules \o <<HostRankingsRules(optic.host_rankings)>>)
         IN [n \in DOMAIN searchable |-> Clause(searchable[n].occur, searchable[n].query)]

\* (mutant) the caller's host rankings are not turned into an optic
RequestOpticsProgramOnly(req) == IF req.optic.some THEN <<req.optic>> ELSE <<>>

\* the optics list of Query::parse: the host rankings' optic, then the program
RequestOptics(req) ==
    (IF req.host_rankings.some THEN <<IntoOptic(req.host_rankings)>> ELSE <<>>)
        \o (IF req.optic.some THEN <<req.optic>> ELSE <<>>)

\* HostRankings::default
DefaultHostRankings == [some |-> TRUE, liked |-> <<>>, disliked |-> <<>>, blocked |-> <<>>]

\* a list of hosts with the hosts of another list it does not hold yet
RECURSIVE UnionOfHosts(_, _)
UnionOfHosts(hosts, more) ==
    IF more = <<>> THEN hosts
    ELSE UnionOfHosts(IF Head(more) \in Range(hosts) THEN hosts ELSE Append(hosts, Head(more)),
                      Tail(more))

\* HostRankings::merge_into
MergeInto(acc, host_rankings) ==
    [some |-> TRUE,
     liked |-> UnionOfHosts(acc.liked, host_rankings.liked),
     disliked |-> UnionOfHosts(acc.disliked, host_rankings.disliked),
     blocked |-> UnionOfHosts(acc.blocked, host_rankings.blocked)]

RECURSIVE FoldHostRankings(_, _)
FoldHostRankings(acc, optics) ==
    IF optics = <<>> THEN acc
    ELSE FoldHostRankings(MergeInto(acc, Head(optics).host_rankings), Tail(optics))

\* (mutant) only the first optic of the list contributes its host rankings
QueryHostRankingsOfFirst(optics) ==
    FoldHostRankings(DefaultHostRankings, IF optics = <<>> THEN optics ELSE <<Head(optics)>>)

\* Query.host_rankings: the fold of merge_into over the optics of the request
QueryHostRankings(optics) == FoldHostRankings(DefaultHostRankings, optics)

\* the loop of Query::parse that grafts every optic on the query built so far
RECURSIVE GraftOptics(_, _)
GraftOptics(tantivy_query, optics) ==
    IF optics = <<>> THEN tantivy_query
    ELSE GraftOptics(
             BooleanQuery(<<Clause("Must", tantivy_query)>> \o AsMultipleTantivy(Head(optics))),
             Tail(optics))

\* (mutant) safe_search adds no clause
NoSafeSearchClauses(req) == <<>>

\* the clause pushed for query.safe_search
SafeSearchClauses(req) ==
    IF req.safe_search THEN <<Clause("MustNot", SafetyQuery("NSFW"))>> ELSE <<>>

\* the clauses of the terms, then the safe-search clause, in one BooleanQuery
BaseQuery(req) ==
    BooleanQuery([n \in DOMAIN req.terms |-> Clause(req.terms[n], TermQuery)]
                 \o SafeSearchClauses(req))

\* Query::parse: the tantivy query of a request
ParseTantivyQuery(req) == GraftOptics(BaseQuery(req), RequestOptics(req))

\* tantivy BooleanQuery: every Must matches, no MustNot matches and, without a
\* Must, some Should matches
BooleanAccepts(clauses, matched) ==
    /\ \A n \in DOMAIN clauses : clauses[n].occur = "Must" => matched[n]
    /\ \A n \in DOMAIN clauses : clauses[n].occur = "MustNot" => ~matched[n]
    /\ \/ \E n \in DOMAIN clauses : clauses[n].occur = "Must"
       \/ \E n \in DOMAIN clauses : clauses[n].occur = "Should" /\ matched[n]

\* the documents a compiled query matches
RECURSIVE Matches(_, _)
Matches(q, doc) ==
    CASE q.kind = "term" -> doc.base
      [] q.kind = "safety" -> doc.safety = q.label
      [] q.kind = "pattern" -> PatternMatches(q.matching, doc)
      [] q.kind = "const" -> Matches(q.query, doc)
      [] q.kind = "union" -> \E n \in DOMAIN q.queries : Matches(q.queries[n], doc)
      [] q.kind = "boolean" ->
            BooleanAccepts(q.clauses, [n \in DOMAIN q.clauses |-> Matches(q.clauses[n].query, doc)])

OpticInit ==
    /\ request \in Requests
    /\ optic_query = NoOpticQuery

\* Query::parse on the request
OpticQueryParse ==
    /\ request.used
    /\ ~optic_query.compiled
    /\ optic_query' = [compiled |-> TRUE, searched |-> FALSE,
                       tantivy_query |-> ParseTantivyQuery(request),
                       host_rankings |-> QueryHostRankings(RequestOptics(request)),
                       hits |-> {}]
    /\ UNCHANGED request

\* the search of the compiled query over the corpus
OpticSearch ==
    /\ optic_query.compiled
    /\ ~optic_query.searched
    /\ optic_query' = [optic_query EXCEPT
                          !.searched = TRUE,
                          !.hits = {doc \in Corpus : Matches(optic_query.tantivy_query, doc)}]
    /\ UNCHANGED request

\* the search of the compiled query over the corpus of classified webpages
SafeSearch ==
    /\ optic_query.compiled
    /\ ~optic_query.searched
    /\ optic_query' = [optic_query EXCEPT
                          !.searched = TRUE,
                          !.hits = {doc \in SafeCorpus : Matches(optic_query.tantivy_query, doc)}]
    /\ UNCHANGED request

InitOptic ==
    /\ alive = [i \in Indexes |-> i = 1]
    /\ IndexInit
    /\ QueryIdle
    /\ OpticInit
    /\ SearchIdle
    /\ ServerIdle

NextOptic == (OpticQueryParse \/ OpticSearch) /\ UNCHANGED <<indexVars, queryVars, searchVars, serverVars>>

SpecOptic == InitOptic /\ [][NextOptic]_vars

\* the search of the compiled query over the corpus of tokenised bodies
PatternSearch ==
    /\ optic_query.compiled
    /\ ~optic_query.searched
    /\ optic_query' = [optic_query EXCEPT
                          !.searched = TRUE,
                          !.hits = {doc \in PatternCorpus : Matches(optic_query.tantivy_query, doc)}]
    /\ UNCHANGED request

InitPattern ==
    /\ alive = [i \in Indexes |-> i = 1]
    /\ IndexInit
    /\ QueryIdle
    /\ request \in PatternRequests
    /\ optic_query = NoOpticQuery
    /\ SearchIdle
    /\ ServerIdle

NextPattern == (OpticQueryParse \/ PatternSearch) /\ UNCHANGED <<indexVars, queryVars, searchVars, serverVars>>

SpecPattern == InitPattern /\ [][NextPattern]_vars

InitSafe ==
    /\ alive = [i \in Indexes |-> i = 1]
    /\ IndexInit
    /\ QueryIdle
    /\ request \in SafeRequests
    /\ optic_query = NoOpticQuery
    /\ SearchIdle
    /\ ServerIdle

NextSafe == (OpticQueryParse \/ SafeSearch) /\ UNCHANGED <<indexVars, queryVars, searchVars, serverVars>>

SpecSafe == InitSafe /\ [][NextSafe]_vars

\* optics of the older compiler: the matchings of a rule are one list, and the
\* optic carries site_rankings
OlderRules ==
    [matches : {<<>>, <<SiteMatchA>>, <<TitleMatchX>>, <<SiteMatchA, TitleMatchX>>},
     action : Actions]

OlderRequests ==
    [used : {TRUE},
     optic : [some : {TRUE},
              rules : UNION {[1..n -> OlderRules] : n \in 0..MaxRules},
              discard_non_matching : BOOLEAN,
              site_rankings : [some : {TRUE}, liked : {<<>>}, disliked : {<<>>},
                               blocked : OpticBlockedLists]]]

\* Rule::as_searchable_rule of the older compiler
OlderAsSearchableRule(rule) ==
    LET subqueries == [n \in DOMAIN rule.matches |->
                          Clause("Must", PatternQuery(rule.matches[n]))]
        subquery == IF Len(subqueries) = 1
                    THEN subqueries[1].query
                    ELSE BooleanQuery(subqueries)
    IN IF subqueries = <<>>
       THEN NoSearchableRule
       ELSE [some |-> TRUE, occur |-> ActionOccur(rule.action),
             query |-> IF rule.action = "Discard" THEN subquery ELSE ConstQuery(subquery)]

\* SiteRankings::rules: one Discard rule per blocked site
OlderSiteRankingsRules(site_rankings) ==
    [n \in DOMAIN site_rankings.blocked |->
        [matches |-> <<[location |-> "Site", pattern |-> site_rankings.blocked[n]]>>,
         action |-> "Discard"]]

\* Optic::as_multiple_tantivy of the older compiler
OlderAsMultipleTantivy(optic) ==
    LET rules == optic.rules \o OlderSiteRankingsRules(optic.site_rankings)
        searchable == SelectSeq([n \in DOMAIN rules |-> OlderAsSearchableRule(rules[n])],
                                LAMBDA r : r.some)
    IN IF optic.discard_non_matching
       THEN <<Clause("Must",
                 UnionQuery([n \in DOMAIN searchable |->
                     BooleanQuery(<<Clause(searchable[n].occur, searchable[n].query)>>)]))>>
       ELSE [n \in DOMAIN searchable |-> Clause(searchable[n].occur, searchable[n].query)]

\* the query of a request compiled with the older compiler: the terms as a Must,
\* then the clauses of the optic
OlderQueryParse ==
    /\ request.used
    /\ ~optic_query.compiled
    /\ optic_query' = [compiled |-> TRUE, searched |-> FALSE,
                       tantivy_query |->
                           BooleanQuery(<<Clause("Must", BooleanQuery(<<Clause("Must", TermQuery)>>))>>
                                        \o OlderAsMultipleTantivy(request.optic)),
                       hits |-> {}]
    /\ UNCHANGED request

InitOlder ==
    /\ alive = [i \in Indexes |-> i = 1]
    /\ IndexInit
    /\ QueryIdle
    /\ request \in OlderRequests
    /\ optic_query = NoOpticQuery
    /\ SearchIdle
    /\ ServerIdle

NextOlder == (OlderQueryParse \/ OpticSearch) /\ UNCHANGED <<indexVars, queryVars, searchVars, serverVars>>

SpecOlder == InitOlder /\ [][NextOlder]_vars

InitRule ==
    /\ alive = [i \in Indexes |-> i = 1]
    /\ IndexInit
    /\ QueryIdle
    /\ request \in RuleRequests
    /\ optic_query = NoOpticQuery
    /\ SearchIdle
    /\ ServerIdle

NextRule == (OpticQueryParse \/ OpticSearch) /\ UNCHANGED <<indexVars, queryVars, searchVars, serverVars>>

SpecRule == InitRule /\ [][NextRule]_vars

InitRankings ==
    /\ alive = [i \in Indexes |-> i = 1]
    /\ IndexInit
    /\ QueryIdle
    /\ request \in RankedRequests
    /\ optic_query = NoOpticQuery
    /\ SearchIdle
    /\ ServerIdle

NextRankings == (OpticQueryParse \/ OpticSearch) /\ UNCHANGED <<indexVars, queryVars, searchVars, serverVars>>

SpecRankings == InitRankings /\ [][NextRankings]_vars

------------------------------------------------------------------------------
(* Claims about optics *)

Searched == optic_query.compiled /\ optic_query.searched

\* a rule matches a document when all matchings of one of its non-empty
\* Matches blocks do
RuleMatches(rule, doc) ==
    \E n \in DOMAIN rule.matches :
        /\ rule.matches[n] # <<>>
        /\ \A m \in DOMAIN rule.matches[n] : PatternMatches(rule.matches[n][m], doc)

OpticRules == IF request.used /\ request.optic.some THEN Range(request.optic.rules) ELSE {}

\* C4: with or without DiscardNonMatching, a document that a Discard rule of
\* the optic matches is absent from the results, whatever other rules match it.
C4_DiscardDominates ==
    Searched =>
        \A doc \in Corpus :
            (\E rule \in OpticRules : rule.action = "Discard" /\ RuleMatches(rule, doc))
                => doc \notin optic_query.hits

\* a search under DiscardNonMatching returned a document while a document of
\* the query is matched by a Boost rule that precedes a Discard rule matching it
C4_Witness ==
    /\ Searched
    /\ request.optic.some
    /\ request.optic.discard_non_matching
    /\ optic_query.hits # {}
    /\ Len(request.optic.rules) = 2
    /\ request.optic.rules[1].action = "Boost"
    /\ request.optic.rules[2].action = "Discard"
    /\ \E doc \in Corpus \ optic_query.hits :
          /\ doc.base
          /\ RuleMatches(request.optic.rules[1], doc)
          /\ RuleMatches(request.optic.rules[2], doc)

\* C6: with DiscardNonMatching set, every returned document matches the base
\* query and at least one rule of the optic that is not a Discard rule.
C6_DiscardNonMatching ==
    (Searched /\ request.optic.some /\ request.optic.discard_non_matching) =>
        \A doc \in optic_query.hits :
            /\ doc.base
            /\ \E rule \in OpticRules : rule.action # "Discard" /\ RuleMatches(rule, doc)

\* a search under DiscardNonMatching returned a document and left out a
\* document of the query that no keeper rule matches
C6_Witness ==
    /\ Searched
    /\ request.optic.some
    /\ request.optic.discard_non_matching
    /\ optic_query.hits # {}
    /\ \E doc \in Corpus \ optic_query.hits :
          /\ doc.base
          /\ \A rule \in OpticRules : ~RuleMatches(rule, doc)

WithoutOptic(req) == [req EXCEPT !.optic = NoOptic]

BoostOnly ==
    /\ request.optic.some
    /\ ~request.optic.discard_non_matching
    /\ request.optic.host_rankings.blocked = <<>>
    /\ \A rule \in OpticRules : rule.action \in {"Boost", "Downrank"}

\* C7: without DiscardNonMatching, an optic that holds only Boost and Downrank
\* rules (and blocks no host) leaves the result set as it is without the optic.
C7_BoostKeepsResultSet ==
    (Searched /\ BoostOnly) =>
        optic_query.hits =
            {doc \in Corpus : Matches(ParseTantivyQuery(WithoutOptic(request)), doc)}

\* a search with a Boost rule and a Downrank rule returned a document that
\* neither rule matches next to one that the Boost rule matches
C7_Witness ==
    /\ Searched
    /\ BoostOnly
    /\ \E r1, r2 \in OpticRules : r1.action = "Boost" /\ r2.action = "Downrank"
    /\ \E d1, d2 \in optic_query.hits :
          /\ \E rule \in OpticRules : rule.action = "Boost" /\ RuleMatches(rule, d1)
          /\ \A rule \in OpticRules : ~RuleMatches(rule, d2)

\* C8: a document whose site is in the caller's blocked list is never
\* returned, whatever optic program comes with the request.
C8_BlockedHostsNeverReturned ==
    (Searched /\ request.host_rankings.some) =>
        \A doc \in optic_query.hits : doc.site \notin Range(request.host_rankings.blocked)

\* a search returned a document while a keeper rule of a DiscardNonMatching
\* program matches a document of the query on a host the caller blocked
C8_Witness ==
    /\ Searched
    /\ request.host_rankings.some
    /\ request.optic.some
    /\ request.optic.discard_non_matching
    /\ optic_query.hits # {}
    /\ \E doc \in Corpus \ optic_query.hits :
          /\ doc.base
          /\ doc.site \in Range(request.host_rankings.blocked)
          /\ \E rule \in OpticRules : rule.action = "Boost" /\ RuleMatches(rule, doc)

\* the pattern of the one matching of the request's optic
RequestPattern == request.optic.rules[1].matches[1][1].pattern

\* the tokens of a pattern body can be laid on the field value in order, next
\* to each other where no wildcard separates them, the first on the first
\* token under a left anchor and the last on the last token under a right one
Embeds(pattern, value) ==
    LET body == PatternBody(pattern)
        toks == {j \in DOMAIN body : body[j] # "*"}
    IN \E at \in [toks -> DOMAIN value] :
          /\ \A j \in toks : value[at[j]] = body[j]
          /\ \A j, k \in toks : j < k => at[j] < at[k]
          /\ \A j \in toks : j + 1 \in toks => at[j + 1] = at[j] + 1
          /\ (Anchored(pattern, 1) /\ 1 \in toks) => at[1] = 1
          /\ (Anchored(pattern, Len(pattern)) /\ Len(body) \in toks) =>
                at[Len(body)] = Len(value)

\* C21: a pattern is matched on the tokenised value F of its field. Without a
\* wildcard, |X| matches iff F is X, |X iff X is a prefix of F, X| iff X is a
\* suffix of F and X iff X occurs as consecutive tokens in F; a wildcard stands
\* for any run of zero or more tokens. The optic of the request discards the
\* webpages its pattern matches.
C21_PatternAnchors ==
    (optic_query.compiled /\ optic_query.searched) =>
        \A doc \in PatternCorpus :
            LET X == PatternBody(RequestPattern)
                F == doc.content
                left == Anchored(RequestPattern, 1)
                right == Anchored(RequestPattern, Len(RequestPattern))
                matched == doc \notin optic_query.hits
                occurs(from) == /\ from >= 1
                                /\ from + Len(X) - 1 <= Len(F)
                                /\ SubSeq(F, from, from + Len(X) - 1) = X
            IN /\ matched <=> Embeds(RequestPattern, F)
               /\ (\A j \in DOMAIN X : X[j] # "*") =>
                     /\ (left /\ right) => (matched <=> F = X)
                     /\ (left /\ ~right) => (matched <=> occurs(1))
                     /\ (~left /\ right) => (matched <=> occurs(Len(F) - Len(X) + 1))
                     /\ (~left /\ ~right) => (matched <=> \E from \in DOMAIN F : occurs(from))

\* a search has discarded a webpage on a left-anchored pattern whose wildcard
\* stands for one token, and kept a webpage that holds the tokens further apart
C21_Witness ==
    /\ optic_query.compiled /\ optic_query.searched
    /\ RequestPattern = <<"|", "a", "*", "b">>
    /\ \E doc \in PatternCorpus \ optic_query.hits : doc.content = <<"a", "a", "b">>
    /\ \E doc \in PatternCorpus \ optic_query.hits : doc.content = <<"a", "b">>
    /\ \E doc \in optic_query.hits : doc.content = <<"b", "a", "b">>

\* what the request returns with the safe_search flag cleared
WithoutSafeSearch ==
    {doc \in SafeCorpus :
        Matches(ParseTantivyQuery([request EXCEPT !.safe_search = FALSE]), doc)}

\* C20: with safe_search the results are those of the same request without it
\* minus the webpages classified NSFW; webpages classified SFW or not classified
\* are returned as before. Without safe_search the classification of a webpage
\* has no influence on whether it is returned.
C20_SafeSearchRemovesNsfw ==
    (optic_query.compiled /\ optic_query.searched) =>
        /\ request.safe_search =>
              optic_query.hits = {doc \in WithoutSafeSearch : doc.safety # "NSFW"}
        /\ ~request.safe_search =>
              \A doc \in SafeCorpus, label \in Labels :
                  doc \in optic_query.hits <=> [doc EXCEPT !.safety = label] \in optic_query.hits

\* a search with safe_search and an optic has dropped an NSFW webpage that the
\* request returns otherwise, and has returned an SFW and an unclassified one
C20_Witness ==
    /\ optic_query.compiled /\ optic_query.searched
    /\ request.safe_search
    /\ request.optic.some
    /\ \E doc \in WithoutSafeSearch \ optic_query.hits : doc.safety = "NSFW"
    /\ \E doc \in optic_query.hits : doc.safety = "SFW"
    /\ \E doc \in optic_query.hits : doc.safety = "none"

\* the hosts of both lists, each once
BothOnce(hosts, first, second) ==
    /\ Range(hosts) = Range(first) \cup Range(second)
    /\ Cardinality(Range(hosts)) = Len(hosts)

TheRule == request.optic.rules[1]

\* some Matches block of the rule has all of its matchings matching the document
SomeBlockMatches(rule, doc) ==
    \E n \in DOMAIN rule.matches :
        \A m \in DOMAIN rule.matches[n] : PatternMatches(rule.matches[n][m], doc)

\* C25: a rule whose Matches blocks all hold matchings matches a document iff
\* all matchings of some block match it: as a Discard rule it removes exactly
\* those documents from the results of the query, and as the only keeper under
\* DiscardNonMatching it keeps exactly those
C25_OrOfAndBlocks ==
    (Searched /\ TheRule.matches # <<>>
              /\ \A n \in DOMAIN TheRule.matches : TheRule.matches[n] # <<>>) =>
        /\ (TheRule.action = "Discard" /\ ~request.optic.discard_non_matching) =>
               optic_query.hits =
                   {doc \in Corpus : doc.base /\ ~SomeBlockMatches(TheRule, doc)}
        /\ (TheRule.action # "Discard" /\ request.optic.discard_non_matching) =>
               optic_query.hits =
                   {doc \in Corpus : doc.base /\ SomeBlockMatches(TheRule, doc)}

\* a Discard rule of two blocks of two matchings leaves a document that matches
\* one matching of each block and removes one that matches a whole block
C25_Witness ==
    /\ Searched
    /\ TheRule.action = "Discard" /\ ~request.optic.discard_non_matching
    /\ TheRule.matches = << <<SiteMatchA, TitleMatchX>>, <<TitleMatchX, SiteMatchA>> >>
    /\ [base |-> TRUE, site |-> "a", title |-> {}] \in optic_query.hits
    /\ [base |-> TRUE, site |-> "b", title |-> {"x"}] \in optic_query.hits
    /\ [base |-> TRUE, site |-> "a", title |-> {"x"}] \notin optic_query.hits

\* the Matches blocks of a rule that hold matchings
NonEmptyBlocks(rule) == SelectSeq(rule.matches, LAMBDA block : block # <<>>)

\* C26: a rule without matchings (no Matches block, or empty blocks only) leaves
\* the compiled query what it is for the optic without the rule, whatever its
\* action; a rule with empty blocks among others compiles to the query of the
\* rule without its empty blocks, and the results are the same
C26_EmptyRulePruned ==
    optic_query.compiled =>
        /\ NonEmptyBlocks(TheRule) = <<>> =>
               /\ optic_query.tantivy_query =
                      ParseTantivyQuery([request EXCEPT !.optic.rules = <<>>])
               /\ Searched =>
                      optic_query.hits =
                          IF request.optic.discard_non_matching THEN {}
                          ELSE {doc \in Corpus : doc.base}
        /\ NonEmptyBlocks(TheRule) # <<>> =>
               /\ optic_query.tantivy_query =
                      ParseTantivyQuery(
                          [request EXCEPT !.optic.rules[1].matches = NonEmptyBlocks(TheRule)])
               /\ (Searched /\ TheRule.action = "Discard"
                            /\ ~request.optic.discard_non_matching) =>
                      optic_query.hits =
                          {doc \in Corpus :
                              /\ doc.base
                              /\ ~\E n \in DOMAIN TheRule.matches :
                                     /\ TheRule.matches[n] # <<>>
                                     /\ \A m \in DOMAIN TheRule.matches[n] :
                                           PatternMatches(TheRule.matches[n][m], doc)}

\* a Discard rule with an empty block before a block on site a has removed the
\* documents of site a and no other
C26_Witness ==
    /\ Searched
    /\ TheRule.action = "Discard" /\ ~request.optic.discard_non_matching
    /\ TheRule.matches = << <<>>, <<SiteMatchA>> >>
    /\ optic_query.hits = {doc \in Corpus : doc.base /\ doc.site # "a"}

\* a rule of the older compiler matches a document when it has matchings and
\* all of them match
OlderRuleMatches(rule, doc) ==
    /\ rule.matches # <<>>
    /\ \A m \in DOMAIN rule.matches : PatternMatches(rule.matches[m], doc)

\* C27 as stated: with the older compiler and DiscardNonMatching, no returned
\* document is matched by a Discard rule of the optic or is of a blocked site
C27_Original ==
    (Searched /\ request.optic.discard_non_matching) =>
        \A doc \in optic_query.hits :
            /\ \A n \in DOMAIN request.optic.rules :
                  request.optic.rules[n].action = "Discard"
                      => ~OlderRuleMatches(request.optic.rules[n], doc)
            /\ doc.site \notin Range(request.optic.site_rankings.blocked)

\* what the older compiler does under DiscardNonMatching: the documents
\* returned are those of the query that a Boost or Downrank rule matches
C27_OlderDiscardIgnored ==
    (Searched /\ request.optic.discard_non_matching) =>
        optic_query.hits =
            {doc \in Corpus :
                /\ doc.base
                /\ \E n \in DOMAIN request.optic.rules :
                      /\ request.optic.rules[n].action # "Discard"
                      /\ OlderRuleMatches(request.optic.rules[n], doc)}

\* a document of the blocked site b is returned because a keeper rule matches it
C27_Witness ==
    /\ Searched
    /\ request.optic.discard_non_matching
    /\ request.optic.site_rankings.blocked = <<"b">>
    /\ request.optic.rules = <<[matches |-> <<TitleMatchX>>, action |-> "Boost"]>>
    /\ \E doc \in optic_query.hits : doc.site = "b"

------------------------------------------------------------------------------
(* search_initial with a collector that carries a document budget *)

\* ranking scores the collector sees; the position of a document in its segment
\* is its rank by PreComputedScore, the sort order of every segment
Scores == {1, 2}

\* a segment is the sequence of the scores of its documents that match the query
SearchSegments == UNION {[1..n -> Scores] : n \in 0..MaxSegLen}
Corpora == {<<seg>> : seg \in SearchSegments} \cup (SearchSegments \X SearchSegments)

\* collector.top_docs().max_docs(): None, or Some(total_docs, segments)
NoLimit == [some |-> FALSE, total_docs |-> 0, segments |-> 1]
Limits == {NoLimit} \cup [some : {TRUE}, total_docs : 0..MaxTotalDocs, segments : {1, 2, 3}]

\* (mutant) the budget divided rounding up
DocsPerSegmentCeil(limit) == (limit.total_docs + limit.segments - 1) \div limit.segments

\* let docs_per_segment = limit.total_docs / limit.segments, a division of usize
DocsPerSegment(limit) == limit.total_docs \div limit.segments

\* (mutant) the query is never wrapped
NeverWraps(count_results, limit) == FALSE

\* the query is wrapped in a ShortCircuitQuery
WrapsQuery(count_results, limit) == ~count_results /\ limit.some

\* ShortCircuitQuery: the scorer of a segment stops after max_docs documents
ShortCircuit(seg, max_docs) ==
    SubSeq(seg, 1, IF max_docs < Len(seg) THEN max_docs ELSE Len(seg))

\* addresses of the documents the scorers of the segments yield
Scored(segs) ==
    UNION {{[segment |-> n, doc |-> d, score |-> segs[n][d]] : d \in DOMAIN segs[n]} :
              n \in DOMAIN segs}

\* the top-k collector: best score first, ties by document address
TopDocs(scored, num_results) ==
    LET Better(a, b) ==
            \/ a.score > b.score
            \/ /\ a.score = b.score
               /\ \/ a.segment < b.segment
                  \/ a.segment = b.segment /\ a.doc < b.doc
    IN {c \in scored : Cardinality({d \in scored : Better(d, c)}) < num_results}

BudgetInit ==
    search \in [phase : {"ready"}, corpus : Corpora, limit : Limits,
                count_results : BOOLEAN, num_results : {1, 2},
                wrapped : {FALSE}, docs_per_segment : {0},
                top_websites : {{}}, num_websites : {-1}]

\* search_initial; num_websites = -1 stands for None
SearchInitialBudget ==
    /\ search.phase = "ready"
    /\ LET wrap == WrapsQuery(search.count_results, search.limit)
           docs_per_segment == DocsPerSegment(search.limit)
           segs == IF wrap
                   THEN [n \in DOMAIN search.corpus |->
                            ShortCircuit(search.corpus[n], docs_per_segment)]
                   ELSE search.corpus
       IN search' = [search EXCEPT
                        !.phase = "done",
                        !.wrapped = wrap,
                        !.docs_per_segment = IF wrap THEN docs_per_segment ELSE 0,
                        !.top_websites = TopDocs(Scored(segs), search.num_results),
                        !.num_websites = IF search.count_results
                                         THEN Cardinality(Scored(segs)) ELSE -1]

InitBudget ==
    /\ alive = [i \in Indexes |-> i = 1]
    /\ IndexInit
    /\ QueryIdle
    /\ OpticIdle
    /\ BudgetInit
    /\ ServerIdle

NextBudget == SearchInitialBudget /\ UNCHANGED <<indexVars, queryVars, opticVars, serverVars>>

SpecBudget == InitBudget /\ [][NextBudget]_vars

\* C17 as stated: the per-segment limit of the short-circuit operator is
\* ceil(total_docs / segments)
C17_Original ==
    (search.phase = "done" /\ search.wrapped) =>
        /\ search.docs_per_segment * search.limit.segments >= search.limit.total_docs
        /\ (search.docs_per_segment - 1) * search.limit.segments < search.limit.total_docs

\* C17: without count_results and with a document budget (total_docs, segments),
\* search_initial wraps the query in a short-circuit operator whose per-segment
\* limit is floor(total_docs / segments): the remainder is dropped when
\* total_docs is not a multiple of segments, and the limit is 0 when total_docs
\* is smaller than segments. In every other case the query is not wrapped.
C17_LimitIsFloorOfBudget ==
    search.phase = "done" =>
        /\ search.wrapped <=> (~search.count_results /\ search.limit.some)
        /\ search.wrapped =>
              /\ search.docs_per_segment * search.limit.segments <= search.limit.total_docs
              /\ (search.docs_per_segment + 1) * search.limit.segments > search.limit.total_docs
              /\ search.limit.total_docs < search.limit.segments => search.docs_per_segment = 0

\* a search was wrapped with a budget that is not a multiple of segments
C17_Witness ==
    /\ search.phase = "done"
    /\ search.wrapped
    /\ search.limit.total_docs = 3
    /\ search.limit.segments = 2
    /\ search.docs_per_segment = 1

\* what the collector returns when the query is evaluated without the wrapper
Unwrapped == TopDocs(Scored(search.corpus), search.num_results)

------------------------------------------------------------------------------
(* retrieve_websites and retrieve_ranking_websites on the pointers of a search *)

\* longest list of pointers handed to a retrieval
MaxPointers == 3

\* DocAddress values: the ordinal of a segment in the searcher and a doc id
Addresses == [segment : 0..1, doc_id : 0..1]

PointerLists == UNION {[1..n -> Addresses] : n \in 0..MaxPointers}

NoSegment == 0 - 1

\* retrieve_doc: the webpage stored at an address of the searcher, or the error
\* of the searcher
RetrieveDoc(doc_address, stored) ==
    IF doc_address \in stored THEN [ok |-> TRUE, webpage |-> doc_address] ELSE [ok |-> FALSE]

\* (mutant) the first error of retrieve_doc is the result of the call
RetrieveWebsitesOrFail(websites, stored) ==
    IF \A n \in DOMAIN websites : RetrieveDoc(websites[n], stored).ok
    THEN [ok |-> TRUE, webpages |-> websites]
    ELSE [ok |-> FALSE, webpages |-> <<>>]

\* retrieve_websites: map retrieve_doc, filter_map ok, collect
RetrieveWebsites(websites, stored) ==
    LET loaded == [n \in DOMAIN websites |-> RetrieveDoc(websites[n], stored)]
        kept == SelectSeq(loaded, LAMBDA res : res.ok)
    IN [ok |-> TRUE, webpages |-> [n \in DOMAIN kept |-> kept[n].webpage]]

\* (mutant) the pointers are processed in the order they came in
PointersAsGiven(pointers) ==
    [n \in DOMAIN pointers |-> [orig_index |-> n, pointer |-> pointers[n]]]

\* pointers.into_iter().enumerate() sorted by segment, then doc id (stable)
SortedPointers(pointers) ==
    LET before(m, n) ==
            \/ pointers[m].segment < pointers[n].segment
            \/ pointers[m].segment = pointers[n].segment
                  /\ pointers[m].doc_id < pointers[n].doc_id
            \/ pointers[m] = pointers[n] /\ m < n
        rank(n) == Cardinality({m \in DOMAIN pointers : before(m, n)}) + 1
    IN [k \in DOMAIN pointers |->
          LET n == CHOOSE n \in DOMAIN pointers : rank(n) = k
          IN [orig_index |-> n, pointer |-> pointers[n]]]

\* the loop of retrieve_ranking_websites from position pos of the sorted
\* pointers: calls holds the register_segment and RankingWebsite::new calls made
RECURSIVE ScorePointers(_, _, _, _, _, _)
ScorePointers(sorted, pos, prev_segment, calls, top_websites, failing) ==
    IF pos > Len(sorted) THEN [ok |-> TRUE, calls |-> calls, top_websites |-> top_websites]
    ELSE LET segment == sorted[pos].pointer.segment
             update_segment == prev_segment = NoSegment \/ prev_segment # segment
             registered == IF update_segment
                           THEN Append(calls, [call |-> "register_segment", segment |-> segment])
                           ELSE calls
         IN IF update_segment /\ segment = failing
            THEN [ok |-> FALSE, calls |-> registered, top_websites |-> <<>>]
            ELSE ScorePointers(
                     sorted, pos + 1, segment,
                     Append(registered, [call |-> "new", orig_index |-> sorted[pos].orig_index]),
                     Append(top_websites,
                            [orig_index |-> sorted[pos].orig_index,
                             website |-> [pointer |-> sorted[pos].pointer,
                                          registered |-> segment]]),
                     failing)

\* retrieve_ranking_websites: the websites sorted back by their original index
RetrieveRankingWebsites(pointers, failing) ==
    LET scored == ScorePointers(SortedPointers(pointers), 1, NoSegment, <<>>, <<>>, failing)
        top == scored.top_websites
    IN IF ~scored.ok THEN scored
       ELSE [ok |-> TRUE, calls |-> scored.calls,
             top_websites |->
                 [k \in DOMAIN top |->
                     LET n == CHOOSE n \in DOMAIN top :
                                  Cardinality({m \in DOMAIN top :
                                      \/ top[m].orig_index < top[n].orig_index
                                      \/ top[m].orig_index = top[n].orig_index /\ m < n}) + 1 = k
                     IN top[n].website]]

NotRetrieved == [done |-> FALSE]

\* pointers of a search, the addresses the current searcher can load, and the
\* segment on which register_segment fails, if any
RetrieveInit ==
    search \in [phase : {"retrieve"}, pointers : PointerLists, stored : SUBSET Addresses,
                failing : {NoSegment, 0, 1},
                webpages : {NotRetrieved}, ranking : {NotRetrieved}]

RetrieveWebsitesCall ==
    /\ search.phase = "retrieve"
    /\ ~search.webpages.done
    /\ search' = [search EXCEPT
                     !.webpages = [done |-> TRUE,
                                   result |-> RetrieveWebsites(search.pointers, search.stored)]]

RetrieveRankingWebsitesCall ==
    /\ search.phase = "retrieve"
    /\ ~search.ranking.done
    /\ search' = [search EXCEPT
                     !.ranking = [done |-> TRUE,
                                  result |-> RetrieveRankingWebsites(search.pointers,
                                                                     search.failing)]]

InitRetrieve ==
    /\ alive = [i \in Indexes |-> i = 1]
    /\ IndexInit
    /\ QueryIdle
    /\ OpticIdle
    /\ RetrieveInit
    /\ ServerIdle

NextRetrieve ==
    (RetrieveWebsitesCall \/ RetrieveRankingWebsitesCall)
        /\ UNCHANGED <<indexVars, queryVars, opticVars, serverVars>>

SpecRetrieve == InitRetrieve /\ [][NextRetrieve]_vars

\* positions of the pointers whose document the searcher can load
Loadable == {n \in DOMAIN search.pointers : search.pointers[n] \in search.stored}

\* C23: retrieve_websites returns Ok whatever documents fail to load, and the
\* webpages returned are those of the pointers whose document loads, in the
\* order of the pointers
C23_MissingDocumentsDropped ==
    search.webpages.done =>
        LET webpages == search.webpages.result.webpages
        IN /\ search.webpages.result.ok
           /\ Len(webpages) = Cardinality(Loadable)
           /\ \A n \in Loadable :
                 webpages[Cardinality({m \in Loadable : m <= n})] = search.pointers[n]

\* three pointers, the second of a document that cannot be loaded
C23_Witness ==
    /\ search.webpages.done
    /\ Len(search.pointers) = 3
    /\ Loadable = {1, 3}
    /\ search.pointers[1] # search.pointers[3]
    /\ search.webpages.result.webpages = <<search.pointers[1], search.pointers[3]>>

\* positions in the calls of a retrieve_ranking_websites
RegisterCalls(calls, segment) ==
    {c \in DOMAIN calls : calls[c].call = "register_segment" /\ calls[c].segment = segment}

NewCall(calls, n) ==
    CHOOSE c \in DOMAIN calls : calls[c].call = "new" /\ calls[c].orig_index = n

\* C29: a retrieve_ranking_websites that returns Ok returns one RankingWebsite
\* per pointer in the order of the pointers, each scored with its own segment
\* registered; register_segment was called once for every segment that has a
\* pointer, before the first pointer of that segment was scored, and for no
\* other segment
C29_OneWebsitePerPointer ==
    (search.ranking.done /\ search.ranking.result.ok) =>
        LET top == search.ranking.result.top_websites
            calls == search.ranking.result.calls
            pointers == search.pointers
        IN /\ Len(top) = Len(pointers)
           /\ \A n \in DOMAIN pointers :
                 /\ top[n].pointer = pointers[n]
                 /\ top[n].registered = pointers[n].segment
           /\ \A segment \in 0..1 :
                 LET of_segment == {n \in DOMAIN pointers : pointers[n].segment = segment}
                 IN /\ Cardinality(RegisterCalls(calls, segment))
                          = IF of_segment = {} THEN 0 ELSE 1
                    /\ \A n \in of_segment :
                          \A c \in RegisterCalls(calls, segment) : c < NewCall(calls, n)

\* pointers of segments 1, 0, 1 in that order: two register_segment calls
C29_Witness ==
    /\ search.ranking.done /\ search.ranking.result.ok
    /\ Len(search.pointers) = 3
    /\ search.pointers[1].segment = 1
    /\ search.pointers[2].segment = 0
    /\ search.pointers[3].segment = 1
    /\ search.pointers[3].doc_id < search.pointers[1].doc_id
    /\ Cardinality({c \in DOMAIN search.ranking.result.calls :
                       search.ranking.result.calls[c].call = "register_segment"}) = 2
    /\ search.ranking.result.top_websites[1].pointer = search.pointers[1]

------------------------------------------------------------------------------
(* The sonic Server: accept spawns one handler task per request *)

\* requests sent to the server
MaxRequests == 3

Connections == 1..MaxRequests

\* a server bound to its socket: status is where each request is, slow the
\* requests whose handler never returns, delivered the requests whose response
\* reached the client
BoundServers ==
    [bound : {TRUE}, status : [Connections -> {"unsent"}], slow : SUBSET Connections,
     delivered : {{}}]

\* a client connects and sends its request
Connect(r) ==
    /\ server.bound
    /\ server.status[r] = "unsent"
    /\ server' = [server EXCEPT !.status[r] = "connecting"]

\* a handler task that accept spawned has not finished
Running(r) == server.status[r] \in {"spawned", "handled"}

\* (mutant) accept awaits the handler task before it returns to the accept loop
AcceptingAfterHandlers(r) ==
    /\ server.bound
    /\ server.status[r] = "connecting"
    /\ \A q \in Connections : ~Running(q)

\* the accept loop is in self.inner.accept() with request r the next to arrive:
\* the accept call before returned when it had spawned its task
Accepting(r) ==
    /\ server.bound
    /\ server.status[r] = "connecting"

\* Server::accept returns Ok: self.inner.accept() gave a request and the task
\* that handles it is spawned
Accept(r) ==
    /\ Accepting(r)
    /\ server' = [server EXCEPT !.status[r] = "spawned"]

\* Server::accept returns Err: self.inner.accept() failed, nothing is spawned
AcceptFails(r) ==
    /\ Accepting(r)
    /\ server' = [server EXCEPT !.status[r] = "rejected"]

\* the spawned task: S::handle returns Ok(res)
HandleOk(r) ==
    /\ server.bound
    /\ server.status[r] = "spawned"
    /\ r \notin server.slow
    /\ server' = [server EXCEPT !.status[r] = "handled"]

\* the spawned task: S::handle returns Err, the error is logged
HandleFails(r) ==
    /\ server.bound
    /\ server.status[r] = "spawned"
    /\ r \notin server.slow
    /\ server' = [server EXCEPT !.status[r] = "failed"]

\* the spawned task: req.respond(res) returns Ok
Respond(r) ==
    /\ server.bound
    /\ server.status[r] = "handled"
    /\ server' = [server EXCEPT !.status[r] = "responded", !.delivered = @ \cup {r}]

\* the spawned task: req.respond(res) returns Err, the error is logged
RespondFails(r) ==
    /\ server.bound
    /\ server.status[r] = "handled"
    /\ server' = [server EXCEPT !.status[r] = "dropped"]

InitServer ==
    /\ alive = [i \in Indexes |-> i = 1]
    /\ IndexInit
    /\ QueryIdle
    /\ OpticIdle
    /\ SearchIdle
    /\ server \in BoundServers

ServerNext ==
    \/ \E r \in Connections : Connect(r)
    \/ \E r \in Connections : Accept(r)
    \/ \E r \in Connections : AcceptFails(r)
    \/ \E r \in Connections : HandleOk(r)
    \/ \E r \in Connections : HandleFails(r)
    \/ \E r \in Connections : Respond(r)
    \/ \E r \in Connections : RespondFails(r)

NextServer == ServerNext /\ UNCHANGED <<indexVars, queryVars, opticVars, searchVars>>

\* the accept loop of the caller and the tokio runtime run what is ready to run
SpecServer == InitServer /\ [][NextServer]_vars /\ WF_vars(NextServer)

\* the task of the request is over, or no task was spawned for it
Settled(r) == server.status[r] \in {"responded", "failed", "dropped", "rejected"}

\* C30: a request whose handler failed or whose response could not be sent gets
\* no response, and every request that has connected and whose own handler
\* returns is settled in the end (answered, or logged as failed), however many
\* handlers of other requests never return
C30_SlowHandlerBlocksNoOther ==
    /\ [](\A r \in Connections :
             server.status[r] \in {"failed", "dropped"} => r \notin server.delivered)
    /\ \A r \in Connections :
          (server.status[r] = "connecting" /\ r \notin server.slow) ~> Settled(r)

\* the handler of request 1 never returns; request 2, accepted after it, is
\* answered and the handler of request 3 has failed
C30_Witness ==
    /\ server.bound
    /\ server.slow = {1}
    /\ server.status[1] = "spawned"
    /\ server.status[2] = "responded" /\ 2 \in server.delivered
    /\ server.status[3] = "failed" /\ 3 \notin server.delivered

====
